---- MODULE Spec2Model ----
(***************************************************************************)
(* A model of two subsystems of lnd:                                       *)
(*   - the peer access manager (accessMan), driven the way                 *)
(*     accessman_test.go drives it, and                                    *)
(*   - the Tor controller of tor/controller.go.                            *)
(* Each subsystem has its own specification(s); the variables of the other *)
(* subsystem stay at their initial values.                                 *)
(***************************************************************************)
EXTENDS Integers, Sequences, FiniteSets, TLC

(***************************************************************************)
(* Bounds of the model.                                                    *)
(***************************************************************************)
NumPeers == 2
MaxSlots == 2
MaxPending == 2
NumTasks == 2
MaxCmdIds == 2
MaxConns == 2
MaxOps == 3
MaxConcOps == 1
MaxReplyLines == 3
MaxSegments == 5
MaxAddrs == 2

Peers == 1..NumPeers
Tasks == 1..NumTasks
CmdIds == 1..MaxCmdIds

(***************************************************************************)
(* Access manager: state.                                                  *)
(***************************************************************************)
VARIABLES
    peerCounts,          \* peer -> ChanCount, or NoCount when the map has no entry
    peerScores,          \* peer -> peerAccessStatus, or "none" when not in the map
    numRestricted,       \* the counter of restricted slots in use
    maxRestrictedSlots,  \* cfg.maxRestrictedSlots, fixed at construction
    amPc,                \* peer -> position of the inbound admission of that peer
    amAccess,            \* peer -> the status assignPeerPerms handed to the caller
    amRet                \* the last call and what it returned

amVars == <<peerCounts, peerScores, numRestricted, maxRestrictedSlots,
            amPc, amAccess, amRet>>

\* The variables of the commands on a running controller.
VARIABLES
    wire,      \* what the server has sent and the controller has not yet read
    rbuf,      \* conn.R, the read buffer of the connection
    nextId,    \* the next id of the connection's pipeline
    respTurn,  \* the id whose response the pipeline lets through
    srvReply,  \* command id -> the lines the server answered it with
    cpc,       \* task -> where it is in sendCommand
    cid,       \* task -> the id of its command
    cacc,      \* task -> reply and code accumulated by readResponse
    cres,      \* command id -> what sendCommand returned for it
    cobs       \* command id -> the commands whose reply bytes its reader was handed

cmdVars == <<wire, rbuf, nextId, respTurn, srvReply, cpc, cid, cacc, cres, cobs>>

\* The variables of the Controller object, its callers and the Tor server.
VARIABLES
    started,          \* Controller.started
    stopped,          \* Controller.stopped
    conn,             \* Controller.conn: 0 is nil, otherwise the id of a dialed connection
    password,         \* Controller.password
    version,          \* Controller.version
    activeServiceID,  \* Controller.activeServiceID
    connClosed,       \* the connections the controller has closed
    authed,           \* server: the connections that are authenticated
    onionOn,          \* server: the connections that carry the onion service
    nDials,           \* connections dialed so far
    io,               \* every dial, command write and close, in order
    pc,               \* task -> where it is in its call
    op,               \* task -> the call it is in, or made last
    ret,              \* task -> what its last call returned
    loc,              \* task -> locals of authenticate
    ops,              \* task -> calls it may still make
    panicked,         \* a nil pointer dereference has brought the process down
    concurrent        \* whether calls of different tasks may overlap

tcVars == <<started, stopped, conn, password, version, activeServiceID, connClosed,
            authed, onionOn, nDials, io, pc, op, ret, loc, ops, panicked, concurrent>>

\* The variables of the functions that are checked call by call.
VARIABLES
    fnIn,    \* the argument of the call
    fnOut    \* <<what the call returned>>, empty before the call

fnVars == <<fnIn, fnOut>>

vars == <<amVars, cmdVars, tcVars, fnVars>>

\* A step of the access manager leaves the controller alone, and the other
\* way round.
AMFrame == UNCHANGED <<cmdVars, tcVars, fnVars>>

CmdFrame == UNCHANGED <<amVars, tcVars, fnVars>>

\* A step of the controller: the process is alive.
TCFrame == ~panicked /\ UNCHANGED <<amVars, cmdVars, fnVars>>

FnFrame == UNCHANGED <<amVars, cmdVars, tcVars>>

\* No function call is under check.
FnUnused == fnIn = <<>> /\ fnOut = <<>>

NoCount == [found |-> FALSE, HasOpenOrClosedChan |-> FALSE, PendingOpenCount |-> 0]

ChanCount(has, pending) ==
    [found |-> TRUE, HasOpenOrClosedChan |-> has, PendingOpenCount |-> pending]

peerStatusRestricted == "restricted"
peerStatusTemporary == "temporary"
peerStatusProtected == "protected"

ErrNone == "nil"
ErrGossiperBan == "ErrGossiperBan"
ErrNoMoreRestrictedAccessSlots == "ErrNoMoreRestrictedAccessSlots"
ErrNoPeerScore == "ErrNoPeerScore"
ErrInvalidTransition == "ErrInvalidTransition"

NoCall == [op |-> "none", peer |-> 0, status |-> "none", err |-> ErrNone]

Call(name, p, status, err) == [op |-> name, peer |-> p, status |-> status, err |-> err]

\* The number of peers recorded as restricted.
RestrictedPeers == {p \in Peers : peerScores[p] = peerStatusRestricted}

\* newAccessMan: the maps are seeded from initAccessPerms, the counter is 0.
AMInit ==
    /\ peerCounts \in [Peers -> {NoCount} \cup
                         {ChanCount(h, n) : h \in BOOLEAN, n \in 0..1}]
    /\ peerScores = [p \in Peers |-> "none"]
    /\ numRestricted = 0
    /\ maxRestrictedSlots \in 0..MaxSlots
    /\ amPc = [p \in Peers |-> "idle"]
    /\ amAccess = [p \in Peers |-> "none"]
    /\ amRet = NoCall

\* The state the access manager is left in by specifications that do not use it.
AMUnused ==
    /\ peerCounts = [p \in Peers |-> NoCount]
    /\ peerScores = [p \in Peers |-> "none"]
    /\ numRestricted = 0
    /\ maxRestrictedSlots = 0
    /\ amPc = [p \in Peers |-> "idle"]
    /\ amAccess = [p \in Peers |-> "none"]
    /\ amRet = NoCall

(***************************************************************************)
(* Access manager: operations.                                             *)
(***************************************************************************)

\* checkIncomingConnBanScore: is there room for this peer? A peer with a
\* channel record is always let through.
checkIncomingConnBanScore(p) ==
    \/ peerCounts[p].found
    \/ numRestricted < maxRestrictedSlots

\* The slot test assignPeerPerms makes for a peer that would be restricted.
NoSlotLeftAlways(num, max) == FALSE

NoSlotLeft(num, max) == num >= max

\* assignPeerPerms asking shouldDisconnect before it looks at the channels.
assignPeerPermsBanFirst(p, ban) ==
    IF ban
    THEN [status |-> peerStatusRestricted, err |-> ErrGossiperBan]
    ELSE IF peerCounts[p].found /\ peerCounts[p].HasOpenOrClosedChan
    THEN [status |-> peerStatusProtected, err |-> ErrNone]
    ELSE IF peerCounts[p].found /\ peerCounts[p].PendingOpenCount > 0
    THEN [status |-> peerStatusTemporary, err |-> ErrNone]
    ELSE IF NoSlotLeft(numRestricted, maxRestrictedSlots)
    THEN [status |-> peerStatusRestricted, err |-> ErrNoMoreRestrictedAccessSlots]
    ELSE [status |-> peerStatusRestricted, err |-> ErrNone]

\* assignPeerPerms without the test of HasOpenOrClosedChan.
assignPeerPermsNoOpenChan(p, ban) ==
    IF peerCounts[p].found /\ peerCounts[p].PendingOpenCount > 0
    THEN [status |-> peerStatusTemporary, err |-> ErrNone]
    ELSE IF ban
    THEN [status |-> peerStatusRestricted, err |-> ErrGossiperBan]
    ELSE IF NoSlotLeft(numRestricted, maxRestrictedSlots)
    THEN [status |-> peerStatusRestricted, err |-> ErrNoMoreRestrictedAccessSlots]
    ELSE [status |-> peerStatusRestricted, err |-> ErrNone]

\* assignPeerPerms: classify the peer; ban is the answer of shouldDisconnect.
\* It reads the state and changes nothing.
assignPeerPerms(p, ban) ==
    IF peerCounts[p].found /\ peerCounts[p].HasOpenOrClosedChan
    THEN [status |-> peerStatusProtected, err |-> ErrNone]
    ELSE IF peerCounts[p].found /\ peerCounts[p].PendingOpenCount > 0
    THEN [status |-> peerStatusTemporary, err |-> ErrNone]
    ELSE IF ban
    THEN [status |-> peerStatusRestricted, err |-> ErrGossiperBan]
    ELSE IF NoSlotLeft(numRestricted, maxRestrictedSlots)
    THEN [status |-> peerStatusRestricted, err |-> ErrNoMoreRestrictedAccessSlots]
    ELSE [status |-> peerStatusRestricted, err |-> ErrNone]

\* addPeerAccess: record the peer with the given status; a restricted peer
\* takes a slot.
addPeerAccess(p, access) ==
    /\ peerScores' = [peerScores EXCEPT ![p] = access]
    /\ numRestricted' = IF access = peerStatusRestricted
                        THEN numRestricted + 1 ELSE numRestricted

\* The caller's rule of assertInboundConnection: the peer is added only when
\* assignPeerPerms returned no error.
MayAddAlways(err) == TRUE

MayAddNever(err) == FALSE

MayAdd(err) == err = ErrNone

\* on_inbound by one caller: assignPeerPerms, then addPeerAccess.
OnInbound(p) ==
    /\ AMFrame
    /\ \E ban \in BOOLEAN :
          LET r == assignPeerPerms(p, ban) IN
          /\ amRet' = Call("on_inbound", p, r.status, r.err)
          /\ IF MayAdd(r.err)
             THEN addPeerAccess(p, r.status)
             ELSE UNCHANGED <<peerScores, numRestricted>>
          /\ UNCHANGED <<peerCounts, maxRestrictedSlots, amPc, amAccess>>

\* The counter of restricted peers once a restricted peer has left the pool.
ReleaseSlotNot(num) == num

ReleaseSlot(num) == num - 1

\* newPendingOpenChan: a restricted peer becomes temporary and frees its slot;
\* a temporary peer gets one more pending channel.
NewPendingOpenChan(p) ==
    /\ AMFrame
    /\ UNCHANGED <<maxRestrictedSlots, amPc, amAccess>>
    /\ CASE peerScores[p] = "none" ->
              /\ amRet' = Call("on_pending_open", p, "none", ErrNoPeerScore)
              /\ UNCHANGED <<peerCounts, peerScores, numRestricted>>
         [] peerScores[p] = peerStatusProtected ->
              /\ amRet' = Call("on_pending_open", p, "none", ErrNone)
              /\ UNCHANGED <<peerCounts, peerScores, numRestricted>>
         [] peerScores[p] = peerStatusTemporary ->
              /\ peerCounts[p].PendingOpenCount < MaxPending
              /\ amRet' = Call("on_pending_open", p, "none", ErrNone)
              /\ peerCounts' = [peerCounts EXCEPT ![p] =
                    ChanCount(@.HasOpenOrClosedChan, @.PendingOpenCount + 1)]
              /\ UNCHANGED <<peerScores, numRestricted>>
         [] peerScores[p] = peerStatusRestricted ->
              /\ amRet' = Call("on_pending_open", p, "none", ErrNone)
              /\ peerCounts' = [peerCounts EXCEPT ![p] = ChanCount(FALSE, 1)]
              /\ peerScores' = [peerScores EXCEPT ![p] = peerStatusTemporary]
              /\ numRestricted' = ReleaseSlot(numRestricted)

\* newOpenChan that leaves a temporary peer temporary.
NewOpenChanNoPromotion(p) ==
    /\ AMFrame
    /\ UNCHANGED <<maxRestrictedSlots, amPc, amAccess, numRestricted>>
    /\ amRet' = Call("on_confirmed_open", p, "none",
                     CASE peerScores[p] = "none" -> ErrNoPeerScore
                       [] peerScores[p] = peerStatusRestricted -> ErrInvalidTransition
                       [] OTHER -> ErrNone)
    /\ peerCounts' = IF peerScores[p] = peerStatusTemporary
                     THEN [peerCounts EXCEPT ![p] = ChanCount(TRUE, @.PendingOpenCount)]
                     ELSE peerCounts
    /\ UNCHANGED peerScores

\* newOpenChan: a temporary peer becomes protected.
NewOpenChan(p) ==
    /\ AMFrame
    /\ UNCHANGED <<maxRestrictedSlots, amPc, amAccess, numRestricted>>
    /\ CASE peerScores[p] = "none" ->
              /\ amRet' = Call("on_confirmed_open", p, "none", ErrNoPeerScore)
              /\ UNCHANGED <<peerCounts, peerScores>>
         [] peerScores[p] = peerStatusProtected ->
              /\ amRet' = Call("on_confirmed_open", p, "none", ErrNone)
              /\ UNCHANGED <<peerCounts, peerScores>>
         [] peerScores[p] = peerStatusTemporary ->
              /\ amRet' = Call("on_confirmed_open", p, "none", ErrNone)
              /\ peerCounts' = [peerCounts EXCEPT ![p] =
                    ChanCount(TRUE, @.PendingOpenCount)]
              /\ peerScores' = [peerScores EXCEPT ![p] = peerStatusProtected]
         [] peerScores[p] = peerStatusRestricted ->
              /\ amRet' = Call("on_confirmed_open", p, "none",
                               ErrInvalidTransition)
              /\ UNCHANGED <<peerCounts, peerScores>>

\* newPendingCloseChan: a temporary peer that loses its last pending channel
\* goes back to restricted if a slot is free, and is refused otherwise.
NewPendingCloseChan(p) ==
    /\ AMFrame
    /\ UNCHANGED <<maxRestrictedSlots, amPc, amAccess>>
    /\ CASE peerScores[p] = "none" ->
              /\ amRet' = Call("on_pending_close", p, "none", ErrNoPeerScore)
              /\ UNCHANGED <<peerCounts, peerScores, numRestricted>>
         [] peerScores[p] = peerStatusProtected ->
              /\ amRet' = Call("on_pending_close", p, "none", ErrNone)
              /\ UNCHANGED <<peerCounts, peerScores, numRestricted>>
         [] peerScores[p] = peerStatusTemporary /\ peerCounts[p].PendingOpenCount > 1 ->
              /\ amRet' = Call("on_pending_close", p, "none", ErrNone)
              /\ peerCounts' = [peerCounts EXCEPT ![p] =
                    ChanCount(@.HasOpenOrClosedChan, @.PendingOpenCount - 1)]
              /\ UNCHANGED <<peerScores, numRestricted>>
         [] peerScores[p] = peerStatusTemporary /\ peerCounts[p].PendingOpenCount <= 1 ->
              /\ peerCounts' = [peerCounts EXCEPT ![p] = NoCount]
              /\ IF NoSlotLeft(numRestricted, maxRestrictedSlots)
                 THEN /\ amRet' = Call("on_pending_close", p, "none",
                                       ErrNoMoreRestrictedAccessSlots)
                      /\ UNCHANGED <<peerScores, numRestricted>>
                 ELSE /\ amRet' = Call("on_pending_close", p, "none",
                                       ErrNone)
                      /\ peerScores' = [peerScores EXCEPT ![p] = peerStatusRestricted]
                      /\ numRestricted' = numRestricted + 1
         [] peerScores[p] = peerStatusRestricted ->
              /\ amRet' = Call("on_pending_close", p, "none",
                               ErrInvalidTransition)
              /\ UNCHANGED <<peerCounts, peerScores, numRestricted>>


(***************************************************************************)
(* Tor controller: reply lines and the bytes on the control socket.        *)
(***************************************************************************)

\* The response codes of controller.go.
success == 250
invalidNumOfArguments == 512
serviceIDNotRecognized == 552

errCodeNotMatch == "unexpected code"
errShortLine == "short line"
errAtoi == "strconv.Atoi"
errInvalidLine == "invalid line"
errIO == "io error"
errPanic == "nil pointer dereference"

\* A line as the server wrote it, without its CRLF: the first three bytes, the
\* fourth byte, and the rest.
Line(pre, sep, text) == [pre |-> pre, sep |-> sep, text |-> text]

Full(l) == l.pre \o l.sep \o l.text

EmptyLine == Line("", "", "")
DotLine == Line(".", "", "")

\* strconv.Atoi on the three-byte prefix; -1 stands for its error.
Atoi(pre) ==
    CASE pre = "250" -> 250
      [] pre = "512" -> 512
      [] pre = "514" -> 514
      [] pre = "515" -> 515
      [] pre = "552" -> 552
      [] OTHER -> -1

\* The socket carries each line as its text followed by its line end; tag is
\* the id of the command the server was answering.
Txt(tag, l) == [tag |-> tag, lf |-> FALSE, line |-> l]
LF(tag) == [tag |-> tag, lf |-> TRUE, line |-> EmptyLine]

RECURSIVE Tokens(_, _)
Tokens(lines, tag) ==
    IF lines = <<>> THEN <<>>
    ELSE <<Txt(tag, Head(lines)), LF(tag)>> \o Tokens(Tail(lines), tag)

\* Index of the first line end of s at or after position i; 0 if there is none.
RECURSIVE NextLF(_, _)
NextLF(s, i) ==
    IF i > Len(s) THEN 0
    ELSE IF s[i].lf THEN i
    ELSE NextLF(s, i + 1)

\* The line that ends at the line end at position j and began at position i.
LineAt(s, i, j) == IF j = i THEN EmptyLine ELSE s[j - 1].line

\* textproto.Reader.ReadDotLines from position i: the lines up to the first "."
\* line. ok is FALSE while the terminating line has not arrived.
RECURSIVE ReadDotLines(_, _, _)
ReadDotLines(s, i, got) ==
    LET j == NextLF(s, i) IN
    IF j = 0 THEN [ok |-> FALSE, n |-> 0, data |-> got]
    ELSE IF LineAt(s, i, j) = DotLine THEN [ok |-> TRUE, n |-> j, data |-> got]
    ELSE ReadDotLines(s, j + 1, Append(got, Full(LineAt(s, i, j))))

\* strings.Join that keeps the first element only.
JoinFirst(strs) == IF strs = <<>> THEN "" ELSE strs[1]

\* strings.Join(resp, ",")
RECURSIVE Join(_)
Join(strs) ==
    IF strs = <<>> THEN ""
    ELSE IF Len(strs) = 1 THEN strs[1]
    ELSE strs[1] \o "," \o Join(Tail(strs))

\* What one iteration of the loop of readResponse takes from the stream s: the
\* line, and for a data reply line its dot-terminated block. ok is FALSE while
\* the iteration would still block on the socket.
Consume(s) ==
    LET j == NextLF(s, 1) IN
    IF j = 0 THEN [ok |-> FALSE, n |-> 0, line |-> EmptyLine, data |-> <<>>]
    ELSE LET l == LineAt(s, 1, j) IN
         IF Len(Full(l)) >= 4 /\ Atoi(l.pre) # -1 /\ l.sep = "+"
         THEN LET d == ReadDotLines(s, j + 1, <<>>) IN
              [ok |-> d.ok, n |-> d.n, line |-> l, data |-> d.data]
         ELSE [ok |-> TRUE, n |-> j, line |-> l, data |-> <<>>]

\* The loop state of readResponse.
Acc(reply, code, done, err) ==
    [reply |-> reply, code |-> code, done |-> done, err |-> err]

AccInit == Acc("", 0, FALSE, ErrNone)

\* The test readResponse makes of a line's code against the expected one.
CodeMismatchNever(code, expected) == FALSE

CodeMismatch(code, expected) == code # expected

\* The iteration of readResponse with a short line reported under the code
\* of the line before it.
LineStepKeepCode(a, l, data, expected) ==
    IF Len(Full(l)) < 4 THEN Acc(a.reply, a.code, TRUE, errShortLine)
    ELSE IF Atoi(l.pre) = -1 THEN Acc(a.reply, 0, TRUE, errAtoi)
    ELSE LET code == Atoi(l.pre) IN
         IF l.sep \notin {" ", "-", "+"}
         THEN Acc(a.reply, code, TRUE, errInvalidLine)
         ELSE LET r == IF l.sep = "+" THEN a.reply \o l.text \o Join(data)
                       ELSE a.reply \o l.text IN
              IF CodeMismatch(code, expected) THEN Acc(r, code, TRUE, errCodeNotMatch)
              ELSE IF l.sep = " " THEN Acc(r, code, TRUE, ErrNone)
              ELSE Acc(r \o "\n", code, FALSE, ErrNone)

\* One iteration of the loop of readResponse on line l (with its data block).
LineStep(a, l, data, expected) ==
    IF Len(Full(l)) < 4 THEN Acc(a.reply, 0, TRUE, errShortLine)
    ELSE IF Atoi(l.pre) = -1 THEN Acc(a.reply, 0, TRUE, errAtoi)
    ELSE LET code == Atoi(l.pre) IN
         IF l.sep \notin {" ", "-", "+"}
         THEN Acc(a.reply, code, TRUE, errInvalidLine)
         ELSE LET r == IF l.sep = "+" THEN a.reply \o l.text \o Join(data)
                       ELSE a.reply \o l.text IN
              IF CodeMismatch(code, expected) THEN Acc(r, code, TRUE, errCodeNotMatch)
              ELSE IF l.sep = " " THEN Acc(r, code, TRUE, ErrNone)
              ELSE Acc(r \o "\n", code, FALSE, ErrNone)

\* readResponse on a stream that holds everything the server will send: the
\* result, and how many units of the stream were read. A reply that never ends
\* is an i/o error (the read fails when the connection goes away).
RECURSIVE ReadAll(_, _, _, _)
ReadAll(s, a, n, expected) ==
    LET c == Consume(s) IN
    IF ~c.ok THEN [acc |-> Acc(a.reply, 0, TRUE, errIO), n |-> n + Len(s)]
    ELSE LET b == LineStep(a, c.line, c.data, expected) IN
         IF b.done THEN [acc |-> b, n |-> n + c.n]
         ELSE ReadAll(SubSeq(s, c.n + 1, Len(s)), b, n + c.n, expected)

\* The result of sendCommand once readResponse has returned.
Result(a) == [code |-> a.code, reply |-> a.reply, err |-> a.err]

\* readResponse on the complete reply of one command.
readResponse(lines, expected) == Result(ReadAll(Tokens(lines, 0), AccInit, 0, expected).acc)


(***************************************************************************)
(* Tor controller: commands on a running controller, read line by line.    *)
(***************************************************************************)

Pending == [code |-> 0, reply |-> "", err |-> "pending"]

\* The replies the server may give to a command.
ReplyShapes ==
    { <<Line("250", " ", "OK")>>,
      <<Line("250", "-", "a=1"), Line("250", " ", "OK")>>,
      <<Line("515", " ", "Bad")>>,
      <<Line("552", "-", "x"), Line("552", " ", "Unknown")>>,
      <<Line("250", "+", "k="), Line("alp", "h", "a"), DotLine,
        Line("250", " ", "OK")>>,
      <<Line("OK", "", "")>>,
      <<Line("250", "?", "OK")>> }

CmdInit ==
    /\ wire = <<>>
    /\ rbuf = <<>>
    /\ nextId = 1
    /\ respTurn = 1
    /\ srvReply = [i \in CmdIds |-> <<>>]
    /\ cpc = [t \in Tasks |-> "idle"]
    /\ cid = [t \in Tasks |-> 0]
    /\ cacc = [t \in Tasks |-> AccInit]
    /\ cres = [i \in CmdIds |-> Pending]
    /\ cobs = [i \in CmdIds |-> {}]

\* conn.Cmd: take the next id of the pipeline and write the command. The
\* server answers it; its answer is on the wire from then on.
ConnCmd(t) ==
    /\ CmdFrame
    /\ cpc[t] = "idle"
    /\ nextId <= MaxCmdIds
    /\ \E shape \in ReplyShapes :
          /\ srvReply' = [srvReply EXCEPT ![nextId] = shape]
          /\ wire' = wire \o Tokens(shape, nextId)
    /\ cid' = [cid EXCEPT ![t] = nextId]
    /\ nextId' = nextId + 1
    /\ cpc' = [cpc EXCEPT ![t] = "sent"]
    /\ cacc' = [cacc EXCEPT ![t] = AccInit]
    /\ UNCHANGED <<rbuf, respTurn, cres, cobs>>

\* conn.StartResponse(id): wait for the responses of all earlier ids to end.
StartResponse(t) ==
    /\ CmdFrame
    /\ cpc[t] = "sent"
    /\ respTurn = cid[t]
    /\ cpc' = [cpc EXCEPT ![t] = "reading"]
    /\ UNCHANGED <<wire, rbuf, nextId, respTurn, srvReply, cid, cacc, cres, cobs>>

\* What the deferred clean-up of readResponse leaves of the read buffer.
DiscardNothing(buffered) == buffered

Discard(buffered) == <<>>

\* One iteration of the loop of readResponse. The reader fills its buffer from
\* the socket only when the buffer does not hold what the iteration needs, and
\* a fill takes any number k of the units that have arrived. When readResponse
\* returns, the deferred Discard empties the buffer and EndResponse lets the
\* next id through.
ReadLine(t) ==
    /\ CmdFrame
    /\ cpc[t] = "reading"
    /\ \E k \in 0..Len(wire) :
          LET s == rbuf \o SubSeq(wire, 1, k)
              c == Consume(s)
              a == LineStep(cacc[t], c.line, c.data, success)
              rest == SubSeq(s, c.n + 1, Len(s))
          IN
          /\ c.ok
          /\ k > 0 => ~Consume(rbuf).ok
          /\ wire' = SubSeq(wire, k + 1, Len(wire))
          /\ cobs' = [cobs EXCEPT ![cid[t]] = @ \cup {s[i].tag : i \in 1..c.n}]
          /\ IF a.done
             THEN /\ rbuf' = Discard(rest)
                  /\ cres' = [cres EXCEPT ![cid[t]] = Result(a)]
                  /\ respTurn' = respTurn + 1
                  /\ cpc' = [cpc EXCEPT ![t] = "idle"]
                  /\ cacc' = [cacc EXCEPT ![t] = AccInit]
             ELSE /\ rbuf' = rest
                  /\ cacc' = [cacc EXCEPT ![t] = a]
                  /\ UNCHANGED <<cres, respTurn, cpc>>
    /\ UNCHANGED <<nextId, srvReply, cid>>


(***************************************************************************)
(* Tor controller: the Controller object, its callers and the Tor server.  *)
(***************************************************************************)

authSafeCookie == "SAFECOOKIE"
authHashedPassword == "HASHEDPASSWORD"
authNull == "NULL"
AuthMethods == {authHashedPassword, authSafeCookie, authNull}

errTCNotStarted == "tor controller must be started"
errTCStopped == "tor controller must not be stopped"
errDial == "unable to connect to Tor server"
errHashedPasswordNotSupported == "HASHEDPASSWORD authentication method not supported"
errNoSupportedAuth == "the Tor server must be configured with NULL, SAFECOOKIE, or HASHEDPASSWORD authentication"
errCookie == "unable to retrieve authentication cookie"
errServerHash == "bad server hash"
errServerNonce == "bad server nonce"
errClose == "close of closed connection"

ServiceID == "svc"
TorVersion == "0.4.7.8"

NoLoc == [methods |-> {}, cookie |-> "none", method |-> "none",
          hash |-> "none", nonce |-> "none"]

\* What parseTorReply finds in a reply.
Params(methods, ver, cookie, hash, nonce, sid) ==
    [methods |-> methods, version |-> ver, cookie |-> cookie, hash |-> hash,
     nonce |-> nonce, serviceID |-> sid]

NoParams == Params({}, "", "none", "none", "none", "")

TCInit ==
    /\ started = 0
    /\ stopped = 0
    /\ conn = 0
    /\ password \in {"", "pw"}
    /\ version = ""
    /\ activeServiceID = ""
    /\ connClosed = {}
    /\ authed = {}
    /\ onionOn = {}
    /\ nDials = 0
    /\ io = <<>>
    /\ pc = [t \in Tasks |-> "idle"]
    /\ op = [t \in Tasks |-> "none"]
    /\ ret = [t \in Tasks |-> ErrNone]
    /\ loc = [t \in Tasks |-> NoLoc]
    /\ panicked = FALSE

\* A controller that was started and authenticated on connection 1.
TCRunning ==
    /\ started = 1
    /\ stopped = 0
    /\ conn = 1
    /\ password = ""
    /\ version = TorVersion
    /\ activeServiceID = ""
    /\ connClosed = {}
    /\ authed = {1}
    /\ onionOn = {}
    /\ nDials = 1
    /\ io = <<>>
    /\ pc = [t \in Tasks |-> "idle"]
    /\ op = [t \in Tasks |-> "none"]
    /\ ret = [t \in Tasks |-> ErrNone]
    /\ loc = [t \in Tasks |-> NoLoc]
    /\ ops = [t \in Tasks |-> 0]
    /\ panicked = FALSE
    /\ concurrent = TRUE

\* An entry of the i/o log: what was done, on which connection, by which task
\* in which call, and the two flags at that moment.
Logged(ev, cmd, c, t, name, st, sp) ==
    [ev |-> ev, cmd |-> cmd, conn |-> c, task |-> t, op |-> name,
     started |-> st, stopped |-> sp]

Event(ev, cmd, c, t, name) == Logged(ev, cmd, c, t, name, started, stopped)

\* A controller that task 1 has started on connection 1 (NULL authentication)
\* and on which it has then registered the onion service.
TCServing ==
    /\ started = 1
    /\ stopped = 0
    /\ conn = 1
    /\ password = ""
    /\ version = TorVersion
    /\ activeServiceID = ServiceID
    /\ connClosed = {}
    /\ authed = {1}
    /\ onionOn = {1}
    /\ nDials = 1
    /\ io = <<Logged("dial", "", 1, 1, "Start", 1, 0),
              Logged("write", "PROTOCOLINFO", 1, 1, "Start", 1, 0),
              Logged("write", "AUTHENTICATE", 1, 1, "Start", 1, 0),
              Logged("write", "ADD_ONION", 1, 1, "AddOnion", 1, 0)>>
    /\ pc = [t \in Tasks |-> "idle"]
    /\ op = [t \in Tasks |-> IF t = 1 THEN "AddOnion" ELSE "none"]
    /\ ret = [t \in Tasks |-> ErrNone]
    /\ loc = [t \in Tasks |-> NoLoc]
    /\ panicked = FALSE

\* The reply of the server to a command on connection c, with the state of the
\* server after it.
Reply(lines, params, a, o) == [lines |-> lines, params |-> params, authed |-> a, onionOn |-> o]

ErrorReply(pre, text) == Reply(<<Line(pre, " ", text)>>, NoParams, authed, onionOn)

ServerReplies(cmd, arg, c) ==
    CASE cmd = "PROTOCOLINFO" ->
           { Reply(<<Line("250", "-", "PROTOCOLINFO 1"), Line("250", "-", "AUTH"),
                     Line("250", "-", "VERSION"), Line("250", " ", "OK")>>,
                   Params(m, v, ck, "none", "none", ""), authed, onionOn) :
               m \in SUBSET AuthMethods, v \in {"", TorVersion},
               ck \in {"nokey", "unreadable", "badlen", "ok"} }
           \cup {ErrorReply("552", "Unrecognized")}
      [] cmd = "AUTHCHALLENGE" ->
           { Reply(<<Line("250", " ", "AUTHCHALLENGE")>>,
                   Params({}, "", "none", h, n, ""), authed, onionOn) :
               h \in {"missing", "badhex", "badlen", "wrong", "valid"},
               n \in {"missing", "badhex", "badlen", "ok"} }
           \cup {ErrorReply("512", "Invalid")}
      [] cmd = "AUTHENTICATE" ->
           { Reply(<<Line("250", " ", "OK")>>, NoParams, authed \cup {c}, onionOn),
             ErrorReply("515", "Bad authentication") }
      [] cmd = "ADD_ONION" ->
           IF c \notin authed THEN {ErrorReply("514", "Authentication required")}
           ELSE { Reply(<<Line("250", "-", "ServiceID"), Line("250", " ", "OK")>>,
                        Params({}, "", "none", "none", "none", ServiceID),
                        authed, onionOn \cup {c}),
                  ErrorReply("512", "Invalid") }
      [] cmd = "DEL_ONION" ->
           IF c \notin authed THEN {ErrorReply("514", "Authentication required")}
           ELSE IF arg = "" THEN {ErrorReply("512", "Missing argument")}
           ELSE IF c \in onionOn
           THEN {Reply(<<Line("250", " ", "OK")>>, NoParams, authed, onionOn \ {c})}
           ELSE {ErrorReply("552", "Unknown onion service")}

\* What a call of sendCommand can come to: its result, whether the command was
\* written, and the state of the server afterwards.
Outcome(code, reply, err, params, wrote, a, o) ==
    [code |-> code, reply |-> reply, err |-> err, params |-> params,
     wrote |-> wrote, authed |-> a, onionOn |-> o]

sendCommand(cmd, arg) ==
    IF conn = 0
    THEN {Outcome(0, "", errPanic, NoParams, FALSE, authed, onionOn)}
    ELSE IF conn \in connClosed
    THEN {Outcome(0, "", errIO, NoParams, FALSE, authed, onionOn)}
    ELSE {Outcome(0, "", errIO, NoParams, TRUE, authed, onionOn)}
         \cup { LET r == readResponse(s.lines, success) IN
                Outcome(r.code, r.reply, r.err,
                        IF r.err = ErrNone THEN s.params ELSE NoParams,
                        TRUE, s.authed, s.onionOn) :
                s \in ServerReplies(cmd, arg, conn) }

\* The effect of a call of sendCommand by task t that came to outcome o.
Sent(t, name, cmd, o) ==
    /\ authed' = o.authed
    /\ onionOn' = o.onionOn
    /\ io' = IF o.wrote THEN Append(io, Event("write", cmd, conn, t, name)) ELSE io
    /\ panicked' = (o.err = errPanic)

\* The call of task t returns err.
Return(t, err) ==
    /\ pc' = [pc EXCEPT ![t] = "idle"]
    /\ ret' = [ret EXCEPT ![t] = err]

\* The locals of authenticate go away when it returns.
Forget(t) == loc' = [loc EXCEPT ![t] = NoLoc]

\* Task t, idle, makes the call name.
Begin(t, name) ==
    /\ pc[t] = "idle"
    /\ ops[t] > 0
    /\ concurrent \/ t = 1
    /\ ops' = [ops EXCEPT ![t] = @ - 1]
    /\ op' = [op EXCEPT ![t] = name]


\* atomic.CompareAndSwapInt32(&flag, 0, 1): does the caller win?
CASAlways(flag) == TRUE

CompareAndSwap(flag) == flag = 0

\* textproto.Dial by task t in call name: a new connection, or an error.
Dial(t, name, next) ==
    \/ /\ nDials < MaxConns
       /\ nDials' = nDials + 1
       /\ conn' = nDials + 1
       /\ io' = Append(io, Event("dial", "", nDials + 1, t, name))
       /\ pc' = [pc EXCEPT ![t] = next]
       /\ UNCHANGED ret
    \/ /\ Return(t, errDial)
       /\ UNCHANGED <<nDials, conn, io>>

\* Start, lines 156-158: the compare-and-swap on started.
Start(t) ==
    /\ TCFrame
    /\ Begin(t, "Start")
    /\ IF CompareAndSwap(started)
       THEN /\ started' = 1
            /\ pc' = [pc EXCEPT ![t] = "Start_dial"]
            /\ UNCHANGED ret
       ELSE /\ Return(t, ErrNone)
            /\ UNCHANGED started
    /\ UNCHANGED <<stopped, conn, password, version, activeServiceID, connClosed,
                   authed, onionOn, nDials, io, loc, panicked, concurrent>>

\* The dial of Start, with the started flag taken back when the dial fails.
StartDialResetting(t) ==
    /\ TCFrame
    /\ pc[t] = "Start_dial"
    /\ Dial(t, "Start", "auth_pinfo")
    /\ started' = IF pc'[t] = "idle" THEN 0 ELSE started
    /\ UNCHANGED <<stopped, password, version, activeServiceID, connClosed,
                   authed, onionOn, op, loc, ops, panicked, concurrent>>

\* Start, lines 162-167: dial and keep the connection.
StartDial(t) ==
    /\ TCFrame
    /\ pc[t] = "Start_dial"
    /\ Dial(t, "Start", "auth_pinfo")
    /\ UNCHANGED <<started, stopped, password, version, activeServiceID, connClosed,
                   authed, onionOn, op, loc, ops, panicked, concurrent>>

\* The switch of authenticate: the method for a configured password and the
\* advertised methods, or the error it fails with.
AuthSelectByPriority(pw, methods) ==
    IF pw # "" /\ authHashedPassword \in methods THEN authHashedPassword
    ELSE IF authSafeCookie \in methods THEN authSafeCookie
    ELSE IF authNull \in methods THEN authNull
    ELSE errNoSupportedAuth

AuthSelect(pw, methods) ==
    IF pw # ""
    THEN IF authHashedPassword \in methods THEN authHashedPassword
         ELSE errHashedPasswordNotSupported
    ELSE IF authSafeCookie \in methods THEN authSafeCookie
    ELSE IF authNull \in methods THEN authNull
    ELSE errNoSupportedAuth

\* authenticate, lines 438-473: PROTOCOLINFO, cache the version, pick the method.
AuthProtocolInfo(t) ==
    /\ TCFrame
    /\ pc[t] = "auth_pinfo"
    /\ \E o \in sendCommand("PROTOCOLINFO", "1") :
          /\ Sent(t, op[t], "PROTOCOLINFO", o)
          /\ IF o.err # ErrNone
             THEN /\ Return(t, o.err)
                  /\ UNCHANGED <<version, loc>>
             ELSE LET m == AuthSelect(password, o.params.methods) IN
                  /\ version' = o.params.version
                  /\ loc' = [loc EXCEPT ![t] = [methods |-> o.params.methods,
                                                cookie |-> IF m = authSafeCookie
                                                           THEN o.params.cookie
                                                           ELSE "none",
                                                method |-> m,
                                                hash |-> "none",
                                                nonce |-> "none"]]
                  /\ IF m \in AuthMethods
                     THEN /\ pc' = [pc EXCEPT ![t] =
                                IF m = authSafeCookie THEN "auth_cookie" ELSE "auth_send"]
                          /\ UNCHANGED ret
                     ELSE Return(t, m)
    /\ UNCHANGED <<started, stopped, conn, password, activeServiceID, connClosed,
                   nDials, op, ops, concurrent>>

\* getAuthCookie: the error of reading the cookie file, if any.
getAuthCookie(cookie) == IF cookie = "ok" THEN ErrNone ELSE errCookie

\* The reply to AUTHCHALLENGE taken as it comes.
CheckChallengeNone(params) == ErrNone

\* authenticateViaSafeCookie, lines 529-568: the checks on the reply to
\* AUTHCHALLENGE: the server hash is there, decodes and has 32 bytes, so the
\* server nonce, and the server hash is the HMAC the controller computes.
CheckChallenge(params) ==
    IF params.hash # "valid" /\ params.hash # "wrong" THEN errServerHash
    ELSE IF params.nonce # "ok" THEN errServerNonce
    ELSE IF params.hash # "valid" THEN errServerHash
    ELSE ErrNone

\* authenticateViaSafeCookie, lines 499-568: read the cookie, send
\* AUTHCHALLENGE, verify the server hash.
AuthSafeCookie(t) ==
    /\ TCFrame
    /\ pc[t] = "auth_cookie"
    /\ IF getAuthCookie(loc[t].cookie) # ErrNone
       THEN /\ Return(t, errCookie)
            /\ Forget(t)
            /\ UNCHANGED <<authed, onionOn, io, panicked>>
       ELSE \E o \in sendCommand("AUTHCHALLENGE", "") :
               /\ Sent(t, op[t], "AUTHCHALLENGE", o)
               /\ IF o.err # ErrNone THEN Return(t, o.err) /\ Forget(t)
                  ELSE IF CheckChallenge(o.params) # ErrNone
                  THEN Return(t, CheckChallenge(o.params)) /\ Forget(t)
                  ELSE /\ pc' = [pc EXCEPT ![t] = "auth_send"]
                       /\ loc' = [loc EXCEPT ![t].hash = o.params.hash,
                                             ![t].nonce = o.params.nonce]
                       /\ UNCHANGED ret
    /\ UNCHANGED <<started, stopped, conn, password, version, activeServiceID,
                   connClosed, nDials, op, ops, concurrent>>

\* The AUTHENTICATE command of authenticateViaNull, authenticateViaHashedPassword
\* and authenticateViaSafeCookie; then authenticate returns to Start or Reconnect.
AuthSend(t) ==
    /\ TCFrame
    /\ pc[t] = "auth_send"
    /\ \E o \in sendCommand("AUTHENTICATE", loc[t].method) :
          /\ Sent(t, op[t], "AUTHENTICATE", o)
          /\ IF o.err # ErrNone THEN Return(t, o.err)
             ELSE IF op[t] = "Reconnect"
             THEN /\ pc' = [pc EXCEPT ![t] = "Rec_reset"]
                  /\ UNCHANGED ret
             ELSE Return(t, ErrNone)
    /\ Forget(t)
    /\ UNCHANGED <<started, stopped, conn, password, version, activeServiceID,
                   connClosed, nDials, op, ops, concurrent>>

\* conn.Close(): the connection is closed, and the server drops the onion
\* services that were registered on it.
Close(c) ==
    /\ connClosed' = connClosed \cup {c}
    /\ onionOn' = onionOn \ {c}

\* Stop, lines 174-176: the compare-and-swap on stopped.
Stop(t) ==
    /\ TCFrame
    /\ Begin(t, "Stop")
    /\ IF CompareAndSwap(stopped)
       THEN /\ stopped' = 1
            /\ pc' = [pc EXCEPT ![t] = "Stop_del"]
            /\ UNCHANGED ret
       ELSE /\ Return(t, ErrNone)
            /\ UNCHANGED stopped
    /\ UNCHANGED <<started, conn, password, version, activeServiceID, connClosed,
                   authed, onionOn, nDials, io, loc, panicked, concurrent>>

\* DelOnion: send DEL_ONION for the service id (outcome o of sendCommand).
DelOnion(t, name, id, o) == Sent(t, name, "DEL_ONION", o)

\* What DelOnion returns for the outcome of its command: a reply of 250 is
\* success, an unrecognised service id (552) is passed over, and an invalid
\* number of arguments (512) or anything else is an error.
DelOnionErr(o) ==
    IF o.code = success \/ o.code = serviceIDNotRecognized THEN ErrNone
    ELSE IF o.code = invalidNumOfArguments THEN "invalid arguments"
    ELSE IF o.err = errPanic THEN errPanic
    ELSE "undefined response code"

\* Does Stop go on to close the connection after DelOnion returned err?
StopGoesOnAlways(err) == TRUE

StopGoesOn(err) == err = ErrNone

\* Stop, lines 181-184: remove the onion service.
StopDelOnion(t) ==
    /\ TCFrame
    /\ pc[t] = "Stop_del"
    /\ \E o \in sendCommand("DEL_ONION", activeServiceID) :
          /\ DelOnion(t, "Stop", activeServiceID, o)
          /\ IF StopGoesOn(DelOnionErr(o))
             THEN /\ pc' = [pc EXCEPT ![t] = "Stop_close"]
                  /\ UNCHANGED ret
             ELSE Return(t, DelOnionErr(o))
    /\ UNCHANGED <<started, stopped, conn, password, version, activeServiceID,
                   connClosed, nDials, op, loc, ops, concurrent>>

\* Stop, lines 187-189: reset the service id and close the connection.
StopClose(t) ==
    /\ TCFrame
    /\ pc[t] = "Stop_close"
    /\ activeServiceID' = ""
    /\ Close(conn)
    /\ io' = Append(io, Event("close", "", conn, t, "Stop"))
    /\ Return(t, IF conn \in connClosed THEN errClose ELSE ErrNone)
    /\ UNCHANGED <<started, stopped, conn, password, version, authed, nDials,
                   op, loc, ops, panicked, concurrent>>

\* Reconnect, lines 206-211: the guard on the two flags.
ReconnectGuardNone(st, sp) == ErrNone

ReconnectGuard(st, sp) ==
    IF st # 1 THEN errTCNotStarted
    ELSE IF sp # 0 THEN errTCStopped
    ELSE ErrNone

Reconnect(t) ==
    /\ TCFrame
    /\ Begin(t, "Reconnect")
    /\ IF ReconnectGuard(started, stopped) # ErrNone
       THEN Return(t, ReconnectGuard(started, stopped))
       ELSE /\ pc' = [pc EXCEPT ![t] = "Rec_close"]
            /\ UNCHANGED ret
    /\ UNCHANGED <<started, stopped, conn, password, version, activeServiceID,
                   connClosed, authed, onionOn, nDials, io, loc, panicked, concurrent>>

\* Reconnect, lines 218-222: close the old connection, whatever Close returns.
ReconnectClose(t) ==
    /\ TCFrame
    /\ pc[t] = "Rec_close"
    /\ IF conn # 0
       THEN /\ Close(conn)
            /\ io' = Append(io, Event("close", "", conn, t, "Reconnect"))
       ELSE UNCHANGED <<connClosed, onionOn, io>>
    /\ pc' = [pc EXCEPT ![t] = "Rec_dial"]
    /\ UNCHANGED <<started, stopped, conn, password, version, activeServiceID, authed,
                   nDials, op, ret, loc, ops, panicked, concurrent>>

\* Reconnect, lines 225-230: dial and keep the new connection.
ReconnectDial(t) ==
    /\ TCFrame
    /\ pc[t] = "Rec_dial"
    /\ Dial(t, "Reconnect", "auth_pinfo")
    /\ UNCHANGED <<started, stopped, password, version, activeServiceID, connClosed,
                   authed, onionOn, op, loc, ops, panicked, concurrent>>

\* What Reconnect leaves in activeServiceID once authenticate has succeeded.
KeepServiceID(id) == id

ResetServiceID(id) == ""

\* Reconnect, lines 241-243: reset the service id and return.
ReconnectReset(t) ==
    /\ TCFrame
    /\ pc[t] = "Rec_reset"
    /\ activeServiceID' = ResetServiceID(activeServiceID)
    /\ Return(t, ErrNone)
    /\ UNCHANGED <<started, stopped, conn, password, version, connClosed, authed,
                   onionOn, nDials, io, op, loc, ops, panicked, concurrent>>

\* AddOnion: send ADD_ONION and remember the service id of the reply.
AddOnion(t) ==
    /\ TCFrame
    /\ Begin(t, "AddOnion")
    /\ \E o \in sendCommand("ADD_ONION", "") :
          /\ Sent(t, "AddOnion", "ADD_ONION", o)
          /\ Return(t, o.err)
          /\ activeServiceID' = IF o.err = ErrNone THEN o.params.serviceID
                                ELSE activeServiceID
    /\ UNCHANGED <<started, stopped, conn, password, version, connClosed, nDials,
                   loc, concurrent>>

\* The calls of the controller, step by step.
TCNext ==
    \E t \in Tasks :
        \/ Start(t)
        \/ StartDial(t)
        \/ AuthProtocolInfo(t)
        \/ AuthSafeCookie(t)
        \/ AuthSend(t)
        \/ Stop(t)
        \/ StopDelOnion(t)
        \/ StopClose(t)
        \/ Reconnect(t)
        \/ ReconnectClose(t)
        \/ ReconnectDial(t)
        \/ ReconnectReset(t)
        \/ AddOnion(t)

\* An inbound connection, step 1 (assertInboundConnection, lines 88-90): the
\* ban-score check; the connection goes on only if it says there is room.
InboundCheck(p) ==
    /\ AMFrame
    /\ amPc[p] = "idle"
    /\ amPc' = [amPc EXCEPT ![p] =
                   IF checkIncomingConnBanScore(p) THEN "checked" ELSE "rejected"]
    /\ UNCHANGED <<peerCounts, peerScores, numRestricted, maxRestrictedSlots,
                   amAccess, amRet>>

\* An inbound connection, step 2 (lines 92-94): assignPeerPerms.
InboundAssign(p) ==
    /\ AMFrame
    /\ amPc[p] = "checked"
    /\ \E ban \in BOOLEAN :
          LET r == assignPeerPerms(p, ban) IN
          /\ amRet' = Call("assignPeerPerms", p, r.status, r.err)
          /\ IF MayAdd(r.err)
             THEN /\ amPc' = [amPc EXCEPT ![p] = "assigned"]
                  /\ amAccess' = [amAccess EXCEPT ![p] = r.status]
             ELSE /\ amPc' = [amPc EXCEPT ![p] = "rejected"]
                  /\ UNCHANGED amAccess
    /\ UNCHANGED <<peerCounts, peerScores, numRestricted, maxRestrictedSlots>>

\* An inbound connection, step 3 (line 96): addPeerAccess with the status
\* that was assigned.
InboundAdd(p) ==
    /\ AMFrame
    /\ amPc[p] = "assigned"
    /\ addPeerAccess(p, amAccess[p])
    /\ amPc' = [amPc EXCEPT ![p] = "admitted"]
    /\ amRet' = Call("addPeerAccess", p, amAccess[p], ErrNone)
    /\ UNCHANGED <<peerCounts, maxRestrictedSlots, amAccess>>

\* Inbound connections of different peers, each call under the mutex but the
\* three calls of one connection interleaved with those of the others.
AMConcNext ==
    \E p \in Peers :
        \/ InboundCheck(p)
        \/ InboundAssign(p)
        \/ InboundAdd(p)

\* The calls of the access manager, one at a time.
(***************************************************************************)
(* Tor controller: readResponse on one whole reply.                        *)
(***************************************************************************)

\* A reply line of the server: its first three bytes, its fourth byte, its
\* text and, for a data reply line, the lines of the data block that follows
\* it.
ReplyLine(pre, sep, text, data) ==
    [pre |-> pre, sep |-> sep, text |-> text, data |-> data]

\* A reply line with status 250.
ReplyEntry(sep, text, data) == ReplyLine("250", sep, text, data)

ReplyEntries ==
    { ReplyEntry("-", "a=1", <<>>),
      ReplyEntry("-", "", <<>>),
      ReplyEntry(" ", "OK", <<>>),
      ReplyEntry(" ", "", <<>>),
      ReplyEntry("+", "k=", <<>>),
      ReplyEntry("+", "k=", <<"v">>),
      ReplyEntry("+", "k=", <<"", "v">>),
      ReplyEntry("+", "config-text=", <<"alpha", "beta">>),
      ReplyLine("515", " ", "Authentication required.", <<>>),
      ReplyLine("515", "-", "m", <<>>),
      ReplyLine("515", "+", "d=", <<"v">>),
      ReplyLine("25", "", "", <<>>),
      ReplyLine("abc", " ", "OK", <<>>),
      ReplyLine("250", "*", "OK", <<>>) }

\* The replies of n reply lines the server may send.
Replies(n) == [1..n -> ReplyEntries]

\* The lines of a data block as the server writes them, with the "." line
\* that ends the block.
DataLines(data) == [i \in 1..Len(data) |-> Line(data[i], "", "")] \o <<DotLine>>

\* The lines on the socket for a reply.
RECURSIVE WireLines(_)
WireLines(es) ==
    IF es = <<>> THEN <<>>
    ELSE <<Line(Head(es).pre, Head(es).sep, Head(es).text)>>
         \o (IF Head(es).sep = "+" THEN DataLines(Head(es).data) ELSE <<>>)
         \o WireLines(Tail(es))

ReplyInit ==
    /\ \E n \in 1..MaxReplyLines : fnIn \in Replies(n)
    /\ fnOut = <<>>

\* readResponse(success) on the reply: what it returns and how many lines it
\* has taken from the connection.
ReadReply ==
    /\ FnFrame
    /\ fnOut = <<>>
    /\ LET r == ReadAll(Tokens(WireLines(fnIn), 0), AccInit, 0, success) IN
       fnOut' = <<[code |-> r.acc.code, reply |-> r.acc.reply, err |-> r.acc.err,
                   lines |-> r.n \div 2]>>
    /\ UNCHANGED fnIn

ReplyNext == ReadReply

(***************************************************************************)
(* Tor controller: supportsV3. A string is the sequence of its bytes, each *)
(* written as a string of length one.                                      *)
(***************************************************************************)

Digits == {"0", "1", "2", "3", "4", "5", "6", "7", "8", "9"}

\* The value of a byte, which is what the comparison of strings goes by.
Ord(ch) ==
    CASE ch = "-" -> 45
      [] ch = "." -> 46
      [] ch = "0" -> 48 [] ch = "1" -> 49 [] ch = "2" -> 50 [] ch = "3" -> 51
      [] ch = "4" -> 52 [] ch = "5" -> 53 [] ch = "6" -> 54 [] ch = "7" -> 55
      [] ch = "8" -> 56 [] ch = "9" -> 57
      [] ch = "c" -> 99
      [] ch = "r" -> 114
      [] ch = "x" -> 120

\* MinTorVersion = "0.3.3.6"
MinTorVersion == <<"0", ".", "3", ".", "3", ".", "6">>

\* a < b on Go strings: byte by byte, a proper prefix being the smaller.
RECURSIVE StringLess(_, _)
StringLess(a, b) ==
    IF b = <<>> THEN FALSE
    ELSE IF a = <<>> THEN TRUE
    ELSE IF Ord(Head(a)) # Ord(Head(b)) THEN Ord(Head(a)) < Ord(Head(b))
    ELSE StringLess(Tail(a), Tail(b))

\* version < MinTorVersion, line 649.
Below(v, min) == StringLess(v, min)

\* strings.Split(str, ch): the parts between the occurrences of ch; cur is the
\* part being read.
RECURSIVE Split(_, _, _)
Split(str, ch, cur) ==
    IF str = <<>> THEN <<cur>>
    ELSE IF Head(str) = ch THEN <<cur>> \o Split(Tail(str), ch, <<>>)
    ELSE Split(Tail(str), ch, Append(cur, Head(str)))

\* Does strconv.Atoi fail on the part? It takes decimal digits after an
\* optional sign, and at least one digit.
AtoiFails(part) ==
    LET body == IF part # <<>> /\ Head(part) = "-" THEN Tail(part) ELSE part IN
    body = <<>> \/ \E i \in DOMAIN body : body[i] \notin Digits

errVersionFormat == "version string is not of the format major.minor.revision.build"
errVersionAtoi == "strconv.Atoi: invalid syntax"
errVersionBelow == "version below minimum version supported"

\* supportsV3, lines 624-655.
supportsV3(v) ==
    LET parts == Split(v, ".", <<>>) IN
    IF Len(parts) # 4 THEN errVersionFormat
    ELSE LET build == Split(parts[4], "-", <<>>)
             nums == [parts EXCEPT ![4] = build[1]] IN
         IF \E i \in 1..4 : AtoiFails(nums[i]) THEN errVersionAtoi
         ELSE IF Below(v, MinTorVersion) THEN errVersionBelow
         ELSE ErrNone

\* The segments version strings are made of here: numbers below, at and above
\* those of the minimum, with one and with two digits, and two that are no
\* numbers.
Segments ==
    { <<>>, <<"x">>, <<"0">>, <<"0", "0">>, <<"3">>, <<"5">>, <<"6">>, <<"1", "0">> }

\* What may follow the last segment: nothing, or a pre-release tag.
Suffixes == { <<>>, <<"-", "r", "c">> }

\* The segments in a row with dots between them.
RECURSIVE Dotted(_)
Dotted(segs) ==
    IF Len(segs) = 1 THEN segs[1]
    ELSE segs[1] \o <<".">> \o Dotted(Tail(segs))

\* The versions of n segments as the server reports them, each with the
\* segments it was made of.
Versions(n) ==
    { [segs |-> sg, suffix |-> sf, str |-> Dotted(sg) \o sf] :
        sg \in [1..n -> Segments], sf \in Suffixes }

VersionInit ==
    /\ \E n \in 3..MaxSegments : fnIn \in Versions(n)
    /\ fnOut = <<>>

\* supportsV3(c.version)
CheckVersion ==
    /\ FnFrame
    /\ fnOut = <<>>
    /\ fnOut' = <<supportsV3(fnIn.str)>>
    /\ UNCHANGED fnIn

VersionNext == CheckVersion

(***************************************************************************)
(* Wire messages: WriteMessage and ReadMessage. A byte string is a         *)
(* sequence of runs, a run being n > 0 equal bytes, and no two neighbours  *)
(* carrying the same byte, so that equal strings are equal sequences.      *)
(***************************************************************************)

MaxMsgBody == 65533
MaxUint16 == 65535
MsgPing == 18
MsgFundingCreated == 34
MsgNodeAnnouncement == 257

Run(n, v) == [n |-> n, v |-> v]

RECURSIVE BLen(_)
BLen(a) == IF a = <<>> THEN 0 ELSE Head(a).n + BLen(Tail(a))

\* a followed by b.
Cat(a, b) ==
    IF a = <<>> THEN b
    ELSE IF b = <<>> THEN a
    ELSE IF a[Len(a)].v = Head(b).v
    THEN SubSeq(a, 1, Len(a) - 1) \o <<Run(a[Len(a)].n + Head(b).n, Head(b).v)>>
         \o Tail(b)
    ELSE a \o b

\* The first k bytes of a (all of a when it has fewer), and what follows them.
RECURSIVE Take(_, _)
Take(a, k) ==
    IF k = 0 \/ a = <<>> THEN <<>>
    ELSE IF Head(a).n <= k THEN <<Head(a)>> \o Take(Tail(a), k - Head(a).n)
    ELSE <<Run(k, Head(a).v)>>

RECURSIVE Drop(_, _)
Drop(a, k) ==
    IF k = 0 \/ a = <<>> THEN a
    ELSE IF Head(a).n <= k THEN Drop(Tail(a), k - Head(a).n)
    ELSE <<Run(Head(a).n - k, Head(a).v)>> \o Tail(a)

\* The i-th byte of a, 1 <= i <= BLen(a).
RECURSIVE ByteAt(_, _)
ByteAt(a, i) == IF i <= Head(a).n THEN Head(a).v ELSE ByteAt(Tail(a), i - Head(a).n)

\* A 16-bit integer, big-endian.
U16(x) == Cat(<<Run(1, (x \div 256) % 256)>>, <<Run(1, x % 256)>>)

ReadU16(a) == ByteAt(a, 1) * 256 + ByteAt(a, 2)

ErrorPayloadTooLarge == "BodyTooLarge"
ErrIndexOverflow == "IndexOverflow"
ErrUnknownMessageType == "UnknownMessageType"
ErrShortRead == "ShortRead"

\* What an encoder or WriteMessage returns: the error, and the bytes written.
Written(err, bytes) == [err |-> err, bytes |-> bytes]

\* What a decoder or ReadMessage returns: the error, and the message.
NoMsg == [type |-> 0]

Decoded(err, msg) == [err |-> err, msg |-> msg]

\* The messages: a ping with its padding, a funding-created with the index of
\* its funding outpoint, a node announcement with its addresses; the latter
\* two end with the extra data of unknown TLV records.
Ping(num, pad) == [type |-> MsgPing, NumPongBytes |-> num, PaddingBytes |-> pad]

FundingCreated(index, extra) ==
    [type |-> MsgFundingCreated, Index |-> index, ExtraData |-> extra]

NodeAnnouncement(addrs, extra) ==
    [type |-> MsgNodeAnnouncement, Addresses |-> addrs, ExtraData |-> extra]

\* An address: IPv4 with port (discriminator 1, six bytes), or opaque, the
\* payload beginning with the unknown discriminator.
TCPAddr(payload) == [kind |-> "tcp4", payload |-> payload]
OpaqueAddrs(payload) == [kind |-> "opaque", payload |-> payload]

\* A Tor v2 onion address with its port (discriminator 3, twelve bytes).
OnionAddr(payload) == [kind |-> "onion2", payload |-> payload]

EncodeAddr(a) ==
    CASE a.kind = "tcp4" -> Cat(<<Run(1, 1)>>, a.payload)
      [] a.kind = "onion2" -> Cat(<<Run(1, 3)>>, a.payload)
      [] OTHER -> a.payload

RECURSIVE EncodeAddrs(_)
EncodeAddrs(addrs) ==
    IF addrs = <<>> THEN <<>>
    ELSE Cat(EncodeAddr(Head(addrs)), EncodeAddrs(Tail(addrs)))

\* WriteNetAddrs: the total length, then the addresses.
WriteNetAddrs(addrs) ==
    Cat(U16(BLen(EncodeAddrs(addrs))), EncodeAddrs(addrs))

\* The known addresses in the bytes b, the bytes from an unknown
\* discriminator on being left out.
RECURSIVE ParseAddrsKnown(_)
ParseAddrsKnown(b) ==
    IF b = <<>> THEN <<>>
    ELSE IF ByteAt(b, 1) = 1 /\ BLen(b) >= 7
    THEN <<TCPAddr(Take(Drop(b, 1), 6))>> \o ParseAddrsKnown(Drop(b, 7))
    ELSE IF ByteAt(b, 1) = 3 /\ BLen(b) >= 13
    THEN <<OnionAddr(Take(Drop(b, 1), 12))>> \o ParseAddrsKnown(Drop(b, 13))
    ELSE <<>>

\* The addresses in the bytes b: everything from an unknown discriminator on
\* is one opaque address.
RECURSIVE ParseAddrs(_)
ParseAddrs(b) ==
    IF b = <<>> THEN <<>>
    ELSE IF ByteAt(b, 1) = 1
    THEN IF BLen(b) < 7 THEN <<[kind |-> "short", payload |-> b]>>
         ELSE <<TCPAddr(Take(Drop(b, 1), 6))>> \o ParseAddrs(Drop(b, 7))
    ELSE IF ByteAt(b, 1) = 3
    THEN IF BLen(b) < 13 THEN <<[kind |-> "short", payload |-> b]>>
         ELSE <<OnionAddr(Take(Drop(b, 1), 12))>> \o ParseAddrs(Drop(b, 13))
    ELSE <<OpaqueAddrs(b)>>

\* ReadElement for an address list: the total length, then the addresses
\* in that many bytes.
ReadNetAddrs(b) ==
    IF BLen(b) < 2 \/ BLen(b) < 2 + ReadU16(b)
    THEN Decoded(ErrShortRead, <<>>)
    ELSE IF \E i \in DOMAIN ParseAddrs(Take(Drop(b, 2), ReadU16(b))) :
              ParseAddrs(Take(Drop(b, 2), ReadU16(b)))[i].kind = "short"
    THEN Decoded(ErrShortRead, <<>>)
    ELSE Decoded(ErrNone, ParseAddrs(Take(Drop(b, 2), ReadU16(b))))

\* WriteOutPoint: the index must fit the two bytes it is written in.
Fits(index) == index <= MaxUint16

\* The 32 bytes of the hash of the funding outpoint.
OutPointHash == <<Run(32, 7)>>

\* WriteOutPoint that writes the low 16 bits of any index.
WriteOutPointTruncating(index) ==
    Written(ErrNone, Cat(OutPointHash, U16(index)))

\* WriteOutPoint: the hash, then the index in two bytes.
WriteOutPoint(index) ==
    IF ~Fits(index) THEN Written(ErrIndexOverflow, <<>>)
    ELSE Written(ErrNone, Cat(OutPointHash, U16(index)))

\* msg.Encode: the body of the message.
Encode(msg) ==
    CASE msg.type = MsgPing ->
           IF BLen(msg.PaddingBytes) > MaxUint16
           THEN Written(ErrorPayloadTooLarge, <<>>)
           ELSE Written(ErrNone, Cat(U16(msg.NumPongBytes),
                                     Cat(U16(BLen(msg.PaddingBytes)),
                                         msg.PaddingBytes)))
      [] msg.type = MsgFundingCreated ->
           IF WriteOutPoint(msg.Index).err # ErrNone
           THEN WriteOutPoint(msg.Index)
           ELSE Written(ErrNone, Cat(WriteOutPoint(msg.Index).bytes,
                                     msg.ExtraData))
      [] msg.type = MsgNodeAnnouncement ->
           Written(ErrNone, Cat(WriteNetAddrs(msg.Addresses), msg.ExtraData))

\* The limit WriteMessage and ReadMessage put on the body, not applied.
TooLargeNever(n) == FALSE

TooLarge(n) == n > MaxMsgBody

\* WriteMessage: the type, then the body; nothing is written when the body
\* cannot be encoded or is too large.
WriteMessage(msg) ==
    LET body == Encode(msg) IN
    IF body.err # ErrNone THEN Written(body.err, <<>>)
    ELSE IF TooLarge(BLen(body.bytes)) THEN Written(ErrorPayloadTooLarge, <<>>)
    ELSE Written(ErrNone, Cat(U16(msg.type), body.bytes))

\* The extra data a decoder keeps: none.
ExtraDataDropped(b) == <<>>

\* The extra data a decoder keeps: all the bytes after the known fields.
ExtraData(b) == b

\* msg.Decode for the registered types.
Decode(type, b) ==
    CASE type = MsgPing ->
           IF BLen(b) < 4 \/ BLen(b) < 4 + ReadU16(Drop(b, 2))
           THEN Decoded(ErrShortRead, NoMsg)
           ELSE Decoded(ErrNone, Ping(ReadU16(b),
                                      Take(Drop(b, 4), ReadU16(Drop(b, 2)))))
      [] type = MsgFundingCreated ->
           IF BLen(b) < 34 THEN Decoded(ErrShortRead, NoMsg)
           ELSE Decoded(ErrNone, FundingCreated(ReadU16(Drop(b, 32)),
                                                ExtraData(Drop(b, 34))))
      [] type = MsgNodeAnnouncement ->
           IF ReadNetAddrs(b).err # ErrNone
           THEN Decoded(ReadNetAddrs(b).err, NoMsg)
           ELSE Decoded(ErrNone,
                        NodeAnnouncement(ReadNetAddrs(b).msg,
                                         ExtraData(Drop(b, 2 + ReadU16(b)))))

\* The registry of makeEmptyMessage.
Registered == {MsgPing, MsgFundingCreated, MsgNodeAnnouncement}

\* ReadMessage: the type, the registry, the body.
ReadMessage(frame) ==
    IF BLen(frame) < 2 THEN Decoded(ErrShortRead, NoMsg)
    ELSE IF ReadU16(frame) \notin Registered
    THEN Decoded(ErrUnknownMessageType, NoMsg)
    ELSE IF TooLarge(BLen(frame) - 2) THEN Decoded(ErrorPayloadTooLarge, NoMsg)
    ELSE Decode(ReadU16(frame), Drop(frame, 2))

\* The values messages are made of here.
Paddings == { <<>>, <<Run(1, 0)>>, <<Run(MaxMsgBody - 4, 0)>>,
              <<Run(MaxMsgBody - 3, 0)>>, <<Run(MaxUint16, 0)>> }

Indices == {0, 1, MaxUint16, MaxUint16 + 1, 2147483647}

\* The outpoints of TestMaxOutPointIndex: the indices above, and those
\* around a change of the high byte.
OutPoint(index) == [kind |-> "outpoint", Index |-> index]

OutPoints == { OutPoint(i) : i \in Indices \cup {255, 256, 258, MaxUint16 - 1} }

\* No extra data, and the unknown record of the tests (type 0xff, no value).
ExtraDatas == { <<>>, <<Run(1, 253), Run(1, 0), Run(1, 255), Run(1, 0)>> }

\* 127.0.0.1:8080, abcdefghijklmnop.onion:9065, and the opaque addresses ff
\* and ff0102.
AddrPool ==
    { TCPAddr(<<Run(1, 127), Run(2, 0), Run(1, 1), Run(1, 31), Run(1, 144)>>),
      OnionAddr(<<Run(1, 0), Run(1, 68), Run(1, 50), Run(1, 20), Run(1, 199),
                  Run(1, 66), Run(1, 84), Run(1, 182), Run(1, 53), Run(1, 207),
                  Run(1, 35), Run(1, 105)>>),
      OpaqueAddrs(<<Run(1, 255)>>),
      OpaqueAddrs(<<Run(1, 255), Run(1, 1), Run(1, 2)>>) }

\* The address lists of TestDecodeUnknownAddressType: up to MaxAddrs + 1
\* addresses.
AddrList(addrs) == [kind |-> "addrs", Addresses |-> addrs]

AddrLists(n) == { AddrList(a) : a \in [1..n -> AddrPool] }

Messages ==
    { Ping(n, pad) : n \in {0, 1}, pad \in Paddings }
    \cup { FundingCreated(i, x) : i \in Indices, x \in ExtraDatas }
    \cup { NodeAnnouncement(a, x) :
             a \in UNION { [1..n -> AddrPool] : n \in 0..MaxAddrs },
             x \in ExtraDatas }

WireInit ==
    /\ \/ fnIn \in Messages \cup OutPoints
       \/ \E n \in 0..(MaxAddrs + 1) : fnIn \in AddrLists(n)
    /\ fnOut = <<>>

\* mainScenario: write the message into a new buffer.
DoWrite ==
    /\ FnFrame
    /\ fnIn \in Messages
    /\ fnOut = <<>>
    /\ fnOut' = <<WriteMessage(fnIn)>>
    /\ UNCHANGED fnIn

\* mainScenario: read the message back from the buffer.
DoRead ==
    /\ FnFrame
    /\ fnIn \in Messages
    /\ Len(fnOut) = 1
    /\ fnOut[1].err = ErrNone
    /\ fnOut' = Append(fnOut, ReadMessage(fnOut[1].bytes))
    /\ UNCHANGED fnIn

\* TestMaxOutPointIndex: write the outpoint into a new buffer.
DoWriteOutPoint ==
    /\ FnFrame
    /\ fnIn \in OutPoints
    /\ fnOut = <<>>
    /\ fnOut' = <<WriteOutPoint(fnIn.Index)>>
    /\ UNCHANGED fnIn

\* TestDecodeUnknownAddressType: write the addresses into a new buffer.
DoWriteNetAddrs ==
    /\ FnFrame
    /\ fnIn \notin Messages \cup OutPoints
    /\ fnOut = <<>>
    /\ fnOut' = <<Written(ErrNone, WriteNetAddrs(fnIn.Addresses))>>
    /\ UNCHANGED fnIn

\* TestDecodeUnknownAddressType: read the addresses from the buffer.
DoReadNetAddrs ==
    /\ FnFrame
    /\ fnIn \notin Messages \cup OutPoints
    /\ Len(fnOut) = 1
    /\ fnOut' = Append(fnOut, ReadNetAddrs(fnOut[1].bytes))
    /\ UNCHANGED fnIn

WireNext ==
    DoWrite \/ DoRead \/ DoWriteOutPoint \/ DoWriteNetAddrs \/ DoReadNetAddrs

AMNext ==
    \E p \in Peers :
        \/ OnInbound(p)
        \/ NewPendingOpenChan(p)
        \/ NewOpenChan(p)
        \/ NewPendingCloseChan(p)

\* sendCommand, called by concurrent tasks.
CmdNext ==
    \E t \in Tasks :
        \/ ConnCmd(t)
        \/ StartResponse(t)
        \/ ReadLine(t)

\* The access manager on its own, no task calling the controller.
InitAM ==
    /\ FnUnused
    /\ AMInit
    /\ CmdInit
    /\ TCInit
    /\ password = ""
    /\ concurrent = FALSE
    /\ ops = [t \in Tasks |-> 0]

\* A running controller, the tasks about to send commands.
InitCmd ==
    /\ FnUnused
    /\ AMUnused
    /\ CmdInit
    /\ TCRunning

\* A new controller and one task, which makes MaxOps calls.
Init ==
    /\ FnUnused
    /\ AMUnused
    /\ CmdInit
    /\ TCInit
    /\ concurrent = FALSE
    /\ ops = [t \in Tasks |-> IF t = 1 THEN MaxOps ELSE 0]

\* A controller that is new, or one that serves its onion service, and tasks
\* that make MaxConcOps calls each.
InitTCConc ==
    /\ FnUnused
    /\ AMUnused
    /\ CmdInit
    /\ TCInit \/ TCServing
    /\ concurrent = TRUE
    /\ ops = [t \in Tasks |-> MaxConcOps]

\* One reply and readResponse on it.
InitReply ==
    /\ ReplyInit
    /\ AMUnused
    /\ CmdInit
    /\ TCRunning

\* One version string and supportsV3 on it.
InitVersion ==
    /\ VersionInit
    /\ AMUnused
    /\ CmdInit
    /\ TCRunning

\* One message, to be written and read back.
InitWire ==
    /\ WireInit
    /\ AMUnused
    /\ CmdInit
    /\ TCRunning

\* The access manager, one call at a time.
SpecAM == InitAM /\ [][AMNext]_vars

\* The access manager, with the inbound connections of different peers
\* being admitted concurrently.
SpecAMConc == InitAM /\ [][AMConcNext]_vars

\* Commands on a running controller, from concurrent tasks.
SpecCmd == InitCmd /\ [][CmdNext]_vars

\* readResponse on every reply of 250 lines.
SpecReply == InitReply /\ [][ReplyNext]_vars

\* supportsV3 on every version string.
SpecVersion == InitVersion /\ [][VersionNext]_vars

\* WriteMessage and ReadMessage on every message.
SpecWire == InitWire /\ [][WireNext]_vars

\* The controller's life cycle, one call at a time.
Spec == Init /\ [][TCNext]_vars

\* The controller's life cycle, with calls of different tasks overlapping.
SpecTCConc == InitTCConc /\ [][TCNext]_vars


(***************************************************************************)
(* Properties.                                                             *)
(***************************************************************************)

\* C1: however on_inbound, on_pending_open, on_confirmed_open and
\* on_pending_close are called one after the other, the number of peers recorded
\* as restricted is at most maxRestrictedSlots, and the counter numRestricted
\* stays within 0..maxRestrictedSlots.
SlotBound ==
    /\ Cardinality(RestrictedPeers) <= maxRestrictedSlots
    /\ 0 <= numRestricted
    /\ numRestricted <= maxRestrictedSlots

\* Every slot is taken by a restricted peer and an inbound connection has just
\* been refused for want of a slot.
SlotBoundWitness ==
    /\ maxRestrictedSlots > 0
    /\ Cardinality(RestrictedPeers) = maxRestrictedSlots
    /\ amRet.op = "on_inbound"
    /\ amRet.err = ErrNoMoreRestrictedAccessSlots

\* The peers whose inbound connection went through all three calls and was
\* recorded as restricted.
AdmittedRestricted ==
    {p \in Peers : amPc[p] = "admitted" /\ amAccess[p] = peerStatusRestricted}

\* C2: when the inbound connections of different peers are admitted
\* concurrently, each by the ban-score check, assignPeerPerms and addPeerAccess,
\* the peers admitted as restricted are never more than maxRestrictedSlots.
ConcurrentSlotBound ==
    /\ Cardinality(AdmittedRestricted) <= maxRestrictedSlots
    /\ numRestricted <= maxRestrictedSlots

\* The units of the stream s that belong to the reply of command i.
RECURSIVE OfCommand(_, _)
OfCommand(s, i) ==
    IF s = <<>> THEN <<>>
    ELSE IF Head(s).tag = i THEN <<Head(s)>> \o OfCommand(Tail(s), i)
    ELSE OfCommand(Tail(s), i)

\* Command i has been written and its reader has not read anything yet.
Unread(i) == i < nextId /\ i >= respTurn /\ cobs[i] = {}

\* C3: with sendCommand called by concurrent tasks, every call returns the
\* reply the server sent for its own command: what it returns is what
\* readResponse makes of that reply, it was handed no byte of another
\* command's reply, and no byte of a reply is lost before its reader reads it.
ReplyOrdering ==
    \A i \in CmdIds :
        /\ cres[i] # Pending => cres[i] = readResponse(srvReply[i], success)
        /\ cobs[i] \subseteq {i}
        /\ Unread(i) => OfCommand(rbuf \o wire, i) = Tokens(srvReply[i], i)

\* C4: once a command has failed with the unexpected-code error, no later
\* command on the controller is handed a byte of the failed command's reply.
ErrorDrain ==
    \A i, j \in CmdIds :
        (i < j /\ cres[i].err = errCodeNotMatch) => i \notin cobs[j]

\* The entries of the i/o log l that call name made with event ev and command cmd.
Entries(l, name, ev, cmd) ==
    {k \in DOMAIN l : l[k].op = name /\ l[k].ev = ev /\ l[k].cmd = cmd}

\* Task t, idle, makes the call name in this step.
Calls(t, name) == pc[t] = "idle" /\ ops'[t] < ops[t] /\ op'[t] = name

\* C5: over all the calls of Start, one after the other or overlapping, the
\* dial, PROTOCOLINFO and AUTHENTICATE of Start each happen at most once; and a
\* call of Start on a controller whose started flag is already set returns nil
\* at once, does no i/o and changes nothing of the controller.
StartIdempotent ==
    [][ /\ Cardinality(Entries(io', "Start", "dial", "")) <= 1
        /\ Cardinality(Entries(io', "Start", "write", "PROTOCOLINFO")) <= 1
        /\ Cardinality(Entries(io', "Start", "write", "AUTHENTICATE")) <= 1
        /\ \A t \in Tasks :
              (Calls(t, "Start") /\ started = 1) =>
                  /\ pc'[t] = "idle"
                  /\ ret'[t] = ErrNone
                  /\ UNCHANGED <<started, stopped, conn, password, version,
                                 activeServiceID, connClosed, authed, onionOn,
                                 nDials, io>>
      ]_vars

\* A second call of Start has returned while the first one is still in
\* authenticate, having dialed.
StartIdempotentWitness ==
    \E t, u \in Tasks :
        /\ t # u
        /\ op[t] = "Start" /\ pc[t] = "auth_pinfo"
        /\ op[u] = "Start" /\ pc[u] = "idle" /\ ret[u] = ErrNone
        /\ Cardinality(Entries(io, "Start", "dial", "")) = 1

\* No call of Stop is under way.
StopReturned == \A t \in Tasks : pc[t] \notin {"Stop_del", "Stop_close"}

\* C6: once Stop, called on a running controller (started, its connection
\* authenticated), has returned, the connection is closed; and a close by Stop
\* comes after the DEL_ONION of that Stop.
StopTearsDown ==
    /\ (started = 1 /\ stopped = 1 /\ conn \in authed /\ StopReturned)
           => conn \in connClosed
    /\ \A k \in Entries(io, "Stop", "close", "") :
           \E j \in Entries(io, "Stop", "write", "DEL_ONION") : j < k

\* C7: every command is written while started is set and stopped is not; and a
\* command attempted on a controller that was not started fails with the
\* not-started error, on a stopped controller with the stopped error.
CommandGating ==
    /\ \A k \in DOMAIN io :
           io[k].ev = "write" => (io[k].started = 1 /\ io[k].stopped = 0)
    /\ \A t \in Tasks :
           (op[t] = "AddOnion" /\ pc[t] = "idle") =>
               /\ started = 0 => ret[t] = errTCNotStarted
               /\ stopped = 1 => ret[t] = errTCStopped
    /\ ~panicked

\* The last dial of the i/o log; 0 when there was none.
LastDial ==
    LET d == {k \in DOMAIN io : io[k].ev = "dial"} IN
    IF d = {} THEN 0 ELSE CHOOSE k \in d : \A j \in d : j <= k

\* C8: when Reconnect has returned nil, every connection the controller had
\* before is closed, its connection is the one Reconnect dialed, open and
\* authenticated, and activeServiceID is empty.
ReconnectPostState ==
    \A t \in Tasks :
        (op[t] = "Reconnect" /\ pc[t] = "idle" /\ ret[t] = ErrNone) =>
            /\ LastDial # 0
            /\ io[LastDial].op = "Reconnect"
            /\ io[LastDial].conn = conn
            /\ \A k \in 1..(LastDial - 1) :
                   io[k].ev = "dial" => io[k].conn \in connClosed
            /\ conn \notin connClosed
            /\ conn \in authed
            /\ activeServiceID = ""

\* Reconnect has returned nil on a controller that had registered an onion
\* service on its first connection.
ReconnectPostStateWitness ==
    \E t \in Tasks :
        /\ op[t] = "Reconnect" /\ pc[t] = "idle" /\ ret[t] = ErrNone
        /\ conn = 2
        /\ 1 \in connClosed
        /\ Entries(io, "AddOnion", "write", "ADD_ONION") # {}

\* C9: a call of Reconnect on a controller that was not started returns the
\* not-started error, and on a stopped one the stopped error; the call closes
\* and dials nothing and leaves conn, version and activeServiceID as they were.
ReconnectGuarded ==
    [][ \A t \in Tasks :
           (Calls(t, "Reconnect") /\ (started # 1 \/ stopped # 0)) =>
               /\ pc'[t] = "idle"
               /\ ret'[t] = IF started # 1 THEN errTCNotStarted ELSE errTCStopped
               /\ UNCHANGED <<conn, version, activeServiceID, connClosed,
                              nDials, io>>
      ]_vars

\* Reconnect has been refused on a controller that was started and stopped.
ReconnectGuardedWitness ==
    \E t \in Tasks :
        /\ op[t] = "Reconnect" /\ pc[t] = "idle" /\ ret[t] = errTCStopped
        /\ started = 1 /\ stopped = 1

\* C10 as stated: the method is taken from the priority list, whatever the
\* password and the advertised methods: HASHEDPASSWORD with a password and the
\* method advertised, else SAFECOOKIE, else NULL, else no supported method.
AuthPriorityList ==
    \A t \in Tasks :
        loc[t] # NoLoc =>
            loc[t].method =
                IF password # "" /\ authHashedPassword \in loc[t].methods
                THEN authHashedPassword
                ELSE IF authSafeCookie \in loc[t].methods THEN authSafeCookie
                ELSE IF authNull \in loc[t].methods THEN authNull
                ELSE errNoSupportedAuth

\* C10, amended: with a password configured the method is HASHEDPASSWORD if
\* the server advertises it and authentication fails otherwise, without going
\* on to another method; with no password it is SAFECOOKIE if advertised, else NULL
\* if advertised, else authentication fails for want of a supported method.
AuthMethodChosen ==
    \A t \in Tasks :
        loc[t] # NoLoc =>
            LET m == loc[t].method
                ms == loc[t].methods
            IN
            /\ (password # "" /\ authHashedPassword \in ms) => m = authHashedPassword
            /\ (password # "" /\ authHashedPassword \notin ms) =>
                   (m = errHashedPasswordNotSupported /\ pc[t] \notin {"auth_cookie", "auth_send"})
            /\ (password = "" /\ authSafeCookie \in ms) => m = authSafeCookie
            /\ (password = "" /\ authSafeCookie \notin ms /\ authNull \in ms) =>
                   m = authNull
            /\ (password = "" /\ authSafeCookie \notin ms /\ authNull \notin ms) =>
                   (m = errNoSupportedAuth /\ pc[t] \notin {"auth_cookie", "auth_send"})

\* A password is configured and the server advertises SAFECOOKIE and NULL but
\* not HASHEDPASSWORD: authenticate has failed.
AuthMethodChosenWitness ==
    \E t \in Tasks :
        /\ password # ""
        /\ loc[t].methods = {authSafeCookie, authNull}
        /\ loc[t].method = errHashedPasswordNotSupported
        /\ ret[t] = errHashedPasswordNotSupported

\* Task t writes cmd in this step.
Writes(t, cmd) ==
    /\ Len(io') = Len(io) + 1
    /\ io'[Len(io')].ev = "write"
    /\ io'[Len(io')].cmd = cmd
    /\ io'[Len(io')].task = t

\* C11: in the SAFECOOKIE flow AUTHENTICATE is sent only once the cookie was
\* read with its 32 bytes, AUTHCHALLENGE was sent, and the reply's server hash
\* and server nonce were found well-formed and the hash equal to the HMAC; a
\* step of the handshake that does not get there returns an error, and writes
\* no AUTHENTICATE.
SafeCookieOrdering ==
    [][ \A t \in Tasks :
          /\ (pc'[t] = "auth_send" /\ loc'[t].method = authSafeCookie) =>
                 /\ loc'[t].cookie = "ok"
                 /\ loc'[t].hash = "valid"
                 /\ loc'[t].nonce = "ok"
          /\ (pc[t] # "auth_send" /\ pc'[t] = "auth_send"
                 /\ loc'[t].method = authSafeCookie) =>
                 /\ pc[t] = "auth_cookie"
                 /\ Writes(t, "AUTHCHALLENGE")
          /\ (Writes(t, "AUTHENTICATE") /\ loc[t].method = authSafeCookie) =>
                 (pc[t] = "auth_send" /\ loc[t].hash = "valid")
          /\ (pc[t] = "auth_cookie" /\ pc'[t] # "auth_cookie"
                 /\ pc'[t] # "auth_send") =>
                 /\ pc'[t] = "idle"
                 /\ ret'[t] # ErrNone
                 /\ ~Writes(t, "AUTHENTICATE")
      ]_vars

\* The handshake has passed its checks and AUTHENTICATE is about to be sent.
SafeCookieOrderingWitness ==
    \E t \in Tasks :
        /\ pc[t] = "auth_send"
        /\ loc[t].method = authSafeCookie
        /\ loc[t].hash = "valid"


(***************************************************************************)
(* Access manager: admission and the channel notifications.                *)
(***************************************************************************)

\* This step is the call name(p) of the access manager.
Notified(name, p) == amRet'.op = name /\ amRet'.peer = p

\* The peer has neither an open or closed channel nor a pending one.
NoChannels(p) ==
    ~peerCounts[p].HasOpenOrClosedChan /\ peerCounts[p].PendingOpenCount = 0

\* C12: an inbound peer with an open or closed channel is admitted as
\* protected, one without but with a pending channel as temporary; both
\* without error, whatever shouldDisconnect answers and however many slots are
\* taken or configured, and the counter of restricted peers is left alone.
ChannelPeersBypass ==
    [][ \A p \in Peers : Notified("on_inbound", p) =>
          /\ peerCounts[p].HasOpenOrClosedChan =>
                /\ amRet'.status = peerStatusProtected
                /\ amRet'.err = ErrNone
                /\ peerScores'[p] = peerStatusProtected
                /\ numRestricted' = numRestricted
                /\ assignPeerPerms(p, TRUE) = assignPeerPerms(p, FALSE)
          /\ (~peerCounts[p].HasOpenOrClosedChan /\ peerCounts[p].PendingOpenCount > 0) =>
                /\ amRet'.status = peerStatusTemporary
                /\ amRet'.err = ErrNone
                /\ peerScores'[p] = peerStatusTemporary
                /\ numRestricted' = numRestricted
                /\ assignPeerPerms(p, TRUE) = assignPeerPerms(p, FALSE)
      ]_vars

\* A peer with a pending channel only has been admitted as temporary while
\* every slot was taken.
ChannelPeersBypassWitness ==
    /\ amRet.op = "on_inbound"
    /\ amRet.status = peerStatusTemporary
    /\ amRet.err = ErrNone
    /\ maxRestrictedSlots > 0
    /\ numRestricted = maxRestrictedSlots

\* C13: for an inbound peer without channels, a disconnect verdict of
\* shouldDisconnect gives ErrGossiperBan with the restricted status, full slots
\* or not; without that verdict, full slots give
\* ErrNoMoreRestrictedAccessSlots with the restricted status; and a call that
\* returned either error took no slot and recorded nothing.
AdmissionErrors ==
    [][ \A p \in Peers : (Notified("on_inbound", p) /\ NoChannels(p)) =>
          /\ assignPeerPerms(p, TRUE) =
                [status |-> peerStatusRestricted, err |-> ErrGossiperBan]
          /\ assignPeerPerms(p, FALSE) =
                [status |-> peerStatusRestricted,
                 err |-> IF numRestricted = maxRestrictedSlots
                         THEN ErrNoMoreRestrictedAccessSlots ELSE ErrNone]
          /\ amRet'.err \in {ErrNone, ErrGossiperBan, ErrNoMoreRestrictedAccessSlots}
          /\ amRet'.err = ErrNoMoreRestrictedAccessSlots =>
                numRestricted = maxRestrictedSlots
          /\ amRet'.err # ErrNone =>
                /\ amRet'.status = peerStatusRestricted
                /\ numRestricted' = numRestricted
                /\ peerScores' = peerScores
      ]_vars

\* A peer has been refused as banned while every slot was taken.
AdmissionErrorsWitness ==
    /\ amRet.op = "on_inbound"
    /\ amRet.err = ErrGossiperBan
    /\ maxRestrictedSlots > 0
    /\ numRestricted = maxRestrictedSlots

\* C14: while a slot is free, an inbound peer without channels that is not
\* banned is admitted as restricted and the counter of restricted peers grows
\* by exactly one; and the promotion of a restricted peer by a pending channel
\* leaves a slot free, which the next such peer gets.
RestrictedReservesSlot ==
    [][ \A p \in Peers :
          /\ ( /\ Notified("on_inbound", p)
               /\ NoChannels(p)
               /\ numRestricted < maxRestrictedSlots
               /\ amRet'.err # ErrGossiperBan ) =>
                /\ amRet'.status = peerStatusRestricted
                /\ amRet'.err = ErrNone
                /\ peerScores'[p] = peerStatusRestricted
                /\ numRestricted' = numRestricted + 1
          /\ ( /\ Notified("on_pending_open", p)
               /\ peerScores[p] = peerStatusRestricted ) =>
                numRestricted' < maxRestrictedSlots
      ]_vars

\* A peer has taken the last slot while another peer, without an open or
\* closed channel, holds the temporary status of a pending channel.
RestrictedReservesSlotWitness ==
    /\ amRet.op = "on_inbound"
    /\ amRet.status = peerStatusRestricted
    /\ amRet.err = ErrNone
    /\ peerScores[amRet.peer] = peerStatusRestricted
    /\ numRestricted = maxRestrictedSlots
    /\ \E q \in Peers :
          /\ q # amRet.peer
          /\ peerScores[q] = peerStatusTemporary
          /\ ~peerCounts[q].HasOpenOrClosedChan

\* C15: a pending channel makes a restricted peer temporary and takes exactly
\* one off the counter of restricted peers; for a temporary or protected peer
\* it changes neither the peer's status nor the counter.
PendingOpenPromotes ==
    [][ \A p \in Peers : Notified("on_pending_open", p) =>
          /\ peerScores[p] = peerStatusRestricted =>
                /\ peerScores'[p] = peerStatusTemporary
                /\ numRestricted' = numRestricted - 1
          /\ peerScores[p] \in {peerStatusTemporary, peerStatusProtected} =>
                /\ peerScores'[p] = peerScores[p]
                /\ numRestricted' = numRestricted
      ]_vars

\* The last call promoted a restricted peer: the peer is temporary with the
\* one pending channel of the promotion, and no slot is taken any more.
PendingOpenPromotesWitness ==
    /\ amRet.op = "on_pending_open"
    /\ amRet.err = ErrNone
    /\ amRet.peer \in Peers
    /\ peerScores[amRet.peer] = peerStatusTemporary
    /\ peerCounts[amRet.peer] = ChanCount(FALSE, 1)
    /\ maxRestrictedSlots > 0
    /\ numRestricted = 0

\* The peer is left without any channel by the close of one pending channel.
NoRemainingChannels(p) ==
    ~peerCounts[p].HasOpenOrClosedChan /\ peerCounts[p].PendingOpenCount <= 1

\* C16: a pending close makes a protected or temporary peer restricted, taking
\* one slot, exactly when the peer is left without channels and a slot is
\* free; when the peer is left without channels and no slot is free the call
\* returns ErrNoMoreRestrictedAccessSlots and the counter is unchanged.
PendingCloseDemotes ==
    [][ \A p \in Peers :
          ( /\ Notified("on_pending_close", p)
            /\ peerScores[p] \in {peerStatusProtected, peerStatusTemporary} ) =>
              /\ (peerScores'[p] = peerStatusRestricted) <=>
                    (NoRemainingChannels(p) /\ numRestricted < maxRestrictedSlots)
              /\ peerScores'[p] = peerStatusRestricted =>
                    (numRestricted' = numRestricted + 1 /\ amRet'.err = ErrNone)
              /\ peerScores'[p] # peerStatusRestricted =>
                    (numRestricted' = numRestricted /\ peerScores'[p] = peerScores[p])
              /\ (NoRemainingChannels(p) /\ numRestricted >= maxRestrictedSlots) =>
                    amRet'.err = ErrNoMoreRestrictedAccessSlots
      ]_vars

\* The last call was a pending close that made the peer restricted.
PendingCloseDemotesWitness ==
    /\ amRet.op = "on_pending_close"
    /\ amRet.err = ErrNone
    /\ amRet.peer \in Peers
    /\ peerScores[amRet.peer] = peerStatusRestricted
    /\ numRestricted = maxRestrictedSlots

\* C17: a confirmed channel makes a temporary peer protected and leaves the
\* counter of restricted peers alone; and no call takes the protected status
\* from a peer that has an open or closed channel before and after it.
ConfirmedOpenProtects ==
    [][ \A p \in Peers :
          /\ ( /\ Notified("on_confirmed_open", p)
               /\ peerScores[p] = peerStatusTemporary ) =>
                /\ peerScores'[p] = peerStatusProtected
                /\ amRet'.err = ErrNone
                /\ numRestricted' = numRestricted
          /\ ( /\ peerScores[p] = peerStatusProtected
               /\ peerCounts[p].HasOpenOrClosedChan
               /\ peerCounts'[p].HasOpenOrClosedChan ) =>
                peerScores'[p] = peerStatusProtected
      ]_vars

\* A peer is protected after its channel was confirmed while another peer
\* holds a slot.
ConfirmedOpenProtectsWitness ==
    /\ amRet.op = "on_confirmed_open"
    /\ amRet.err = ErrNone
    /\ amRet.peer \in Peers
    /\ peerScores[amRet.peer] = peerStatusProtected
    /\ peerCounts[amRet.peer].PendingOpenCount > 0
    /\ numRestricted > 0

Lifecycle == {"on_pending_open", "on_confirmed_open", "on_pending_close"}

\* C19: when the call before this one was the same notification for the same
\* peer, this call leaves the peer's status and the counter of restricted
\* peers as that first call left them.
ReplayIdempotent ==
    [][ \A p \in Peers : \A name \in Lifecycle :
          ( /\ amRet.op = name /\ amRet.peer = p
            /\ Notified(name, p) ) =>
              /\ peerScores'[p] = peerScores[p]
              /\ numRestricted' = numRestricted
      ]_vars


(***************************************************************************)
(* Tor controller: what a successful Start leaves behind.                  *)
(***************************************************************************)

\* The call name of task t returns in this step.
Returns(t, name) ==
    /\ Calls(t, name) \/ (op[t] = name /\ pc[t] # "idle")
    /\ pc'[t] = "idle"

\* C20: whenever a call of Start returns without error, be it the first, a
\* repeated or a concurrent one, the controller holds an open connection on
\* which authentication has completed.
StartConnected ==
    [][ \A t \in Tasks :
          (Returns(t, "Start") /\ ret'[t] = ErrNone) =>
              /\ conn' # 0
              /\ conn' \in authed'
              /\ conn' \notin connClosed'
      ]_vars

(***************************************************************************)
(* Tor controller: the state a successful Start leaves, Stop and Start on  *)
(* a controller that is not running.                                       *)
(***************************************************************************)

\* C21: when a call of Start that dialed and authenticated returns without
\* error, the cached version is not empty and the call authenticated with one
\* of HASHEDPASSWORD, SAFECOOKIE and NULL, whatever the reply to PROTOCOLINFO
\* was.
StartCachesVersion ==
    [][ \A t \in Tasks :
          ( /\ op[t] = "Start" /\ pc[t] = "auth_send"
            /\ pc'[t] = "idle" /\ ret'[t] = ErrNone ) =>
              /\ version' # ""
              /\ loc[t].method \in AuthMethods
              /\ Writes(t, "AUTHENTICATE")
      ]_vars

\* C22: over all the calls of Stop, one after the other or overlapping, the
\* DEL_ONION and the close of Stop each happen at most once; and a call of
\* Stop on a controller whose stopped flag is already set returns nil at once,
\* having written nothing and changed nothing.
StopIdempotent ==
    [][ /\ Cardinality(Entries(io', "Stop", "write", "DEL_ONION")) <= 1
        /\ Cardinality(Entries(io', "Stop", "close", "")) <= 1
        /\ \A t \in Tasks :
              (Calls(t, "Stop") /\ stopped = 1) =>
                  /\ pc'[t] = "idle"
                  /\ ret'[t] = ErrNone
                  /\ UNCHANGED <<started, stopped, conn, password, version,
                                 activeServiceID, connClosed, authed, onionOn,
                                 nDials, io>>
      ]_vars

\* A second call of Stop has returned while the first one, having sent its
\* DEL_ONION, is about to close the connection.
StopIdempotentWitness ==
    \E t, u \in Tasks :
        /\ t # u
        /\ op[t] = "Stop" /\ pc[t] = "Stop_close"
        /\ op[u] = "Stop" /\ pc[u] = "idle" /\ ret[u] = ErrNone
        /\ Cardinality(Entries(io, "Stop", "write", "DEL_ONION")) = 1

\* C23: a call of Stop on a controller that was never started returns at once
\* and leaves everything as it was: no command, no connection touched, the two
\* flags still clear.
StopFreshNoOp ==
    [][ \A t \in Tasks :
          (Calls(t, "Stop") /\ started = 0 /\ stopped = 0) =>
              /\ pc'[t] = "idle"
              /\ UNCHANGED <<started, stopped, conn, password, version,
                             activeServiceID, connClosed, authed, onionOn,
                             nDials, io>>
      ]_vars

\* C24: a call of Start on a controller whose stopped flag is set returns at
\* once: it dials nothing, writes nothing and changes none of the controller's
\* fields.
StartStoppedNoOp ==
    [][ \A t \in Tasks :
          (Calls(t, "Start") /\ stopped = 1) =>
              /\ pc'[t] = "idle"
              /\ UNCHANGED <<started, stopped, conn, password, version,
                             activeServiceID, connClosed, authed, onionOn,
                             nDials, io>>
      ]_vars

\* C25: at most one command has been written to the connection and not had
\* its response read to the end.
OneCommandInFlight == nextId - respTurn <= 1

(***************************************************************************)
(* Tor controller: the reply readResponse assembles.                       *)
(***************************************************************************)

\* The strings of strs in a row, with by between any two of them.
RECURSIVE JoinWith(_, _)
JoinWith(strs, by) ==
    IF strs = <<>> THEN ""
    ELSE IF Len(strs) = 1 THEN strs[1]
    ELSE strs[1] \o by \o JoinWith(Tail(strs), by)

\* The reply line is one of the grammar and carries the expected code.
Expected(e) == e.pre = "250" /\ e.sep \in {" ", "-", "+"}

\* The position of the first end reply line of the reply, 0 if it has none.
FirstEnd(es) ==
    IF \E i \in DOMAIN es : es[i].sep = " "
    THEN CHOOSE i \in DOMAIN es :
            es[i].sep = " " /\ \A j \in 1..(i - 1) : es[j].sep # " "
    ELSE 0

\* The text a reply line stands for: a data reply line's text goes with the
\* lines of its block, comma-separated.
EntryText(e) == IF e.sep = "+" THEN e.text \o JoinWith(e.data, ",") ELSE e.text

\* The lines the server writes for the first k reply lines.
RECURSIVE LinesUpTo(_, _)
LinesUpTo(es, k) ==
    IF k = 0 THEN 0
    ELSE LinesUpTo(es, k - 1) + 1
         + (IF es[k].sep = "+" THEN Len(es[k].data) + 1 ELSE 0)

IsNumber(seg) == seg # <<>> /\ \A i \in DOMAIN seg : seg[i] \in Digits

\* The number a segment of decimal digits stands for.
RECURSIVE Value(_)
Value(seg) ==
    IF seg = <<>> THEN 0
    ELSE 10 * Value(SubSeq(seg, 1, Len(seg) - 1)) + (Ord(seg[Len(seg)]) - 48)

\* The version has exactly four segments, each a number.
WellFormed(v) == Len(v.segs) = 4 /\ \A i \in 1..4 : IsNumber(v.segs[i])

\* a < b on tuples of numbers of the same length, the first component counting most.
RECURSIVE TupleLess(_, _)
TupleLess(a, b) ==
    IF a = <<>> THEN FALSE
    ELSE IF Head(a) # Head(b) THEN Head(a) < Head(b)
    ELSE TupleLess(Tail(a), Tail(b))

\* (major, minor, revision, build) of a well-formed version.
Numeric(v) == [i \in 1..4 |-> Value(v.segs[i])]

MinNumeric == <<0, 3, 3, 6>>

\* C27: supportsV3 returns an error for every version that does not have
\* exactly four dot-separated numbers (a pre-release tag after the last one
\* apart), and for every well-formed version whose numbers are below
\* (0, 3, 3, 6).
RefusesOldVersions ==
    fnOut # <<>> =>
        /\ ~WellFormed(fnIn) => fnOut[1] # ErrNone
        /\ (WellFormed(fnIn) /\ TupleLess(Numeric(fnIn), MinNumeric)) =>
               fnOut[1] # ErrNone

\* C28: a version whose four segments are numbers of one or two digits is
\* accepted by supportsV3 exactly when its numbers are not below (0, 3, 3, 6).
AgreesWithNumericOrder ==
    ( /\ fnOut # <<>>
      /\ WellFormed(fnIn)
      /\ \A i \in 1..4 : Len(fnIn.segs[i]) <= 2 ) =>
        (fnOut[1] = ErrNone <=> ~TupleLess(Numeric(fnIn), MinNumeric))

\* The number of bytes the fields of a message take in a body.
RECURSIVE AddrsSize(_)
AddrsSize(addrs) ==
    IF addrs = <<>> THEN 0
    ELSE (CASE Head(addrs).kind = "tcp4" -> 7
            [] Head(addrs).kind = "onion2" -> 13
            [] OTHER -> BLen(Head(addrs).payload))
         + AddrsSize(Tail(addrs))

BodySize(msg) ==
    CASE msg.type = MsgPing -> 4 + BLen(msg.PaddingBytes)
      [] msg.type = MsgFundingCreated -> 34 + BLen(msg.ExtraData)
      [] msg.type = MsgNodeAnnouncement ->
           2 + AddrsSize(msg.Addresses) + BLen(msg.ExtraData)

\* The messages WriteMessage has no reason to refuse.
Accepted(msg) ==
    /\ BodySize(msg) <= MaxMsgBody
    /\ msg.type = MsgFundingCreated => msg.Index <= MaxUint16

\* An address list with its entries from the first opaque one on made one
\* opaque address of the same bytes.
RECURSIVE OpaqueTail(_)
OpaqueTail(addrs) ==
    IF addrs = <<>> THEN <<>>
    ELSE IF Head(addrs).kind = "opaque" THEN <<OpaqueAddrs(EncodeAddrs(addrs))>>
    ELSE <<Head(addrs)>> \o OpaqueTail(Tail(addrs))

Canonical(msg) ==
    IF msg.type = MsgNodeAnnouncement
    THEN NodeAnnouncement(OpaqueTail(msg.Addresses), msg.ExtraData)
    ELSE msg

WireSizeBound ==
    Len(fnOut) >= 1 /\ fnIn \in Messages =>
        /\ fnOut[1].err = ErrNone =>
             /\ BLen(fnOut[1].bytes) - 2 <= MaxMsgBody
             /\ BLen(fnOut[1].bytes) - 2 = BodySize(fnIn)
        /\ BodySize(fnIn) > MaxMsgBody =>
             fnOut[1].err # ErrNone /\ fnOut[1].bytes = <<>>

\* A ping whose body would be one byte too large has been refused.
WireSizeBoundWitness ==
    /\ fnIn \in Messages
    /\ Len(fnOut) >= 1
    /\ BodySize(fnIn) = MaxMsgBody + 1
    /\ fnOut[1].err = ErrorPayloadTooLarge
    /\ fnOut[1].bytes = <<>>

\* C31: WriteOutPoint fails, writing nothing, for every outpoint whose index
\* is greater than 0xFFFF, and for every index from 0 to 0xFFFF it succeeds
\* and writes the 32 bytes of the hash followed by the index as exactly two
\* bytes, the high byte first.
OutPointIndexBound ==
    fnIn \in OutPoints /\ Len(fnOut) = 1 =>
        /\ fnIn.Index > 65535 =>
             fnOut[1].err # ErrNone /\ fnOut[1].bytes = <<>>
        /\ fnIn.Index <= 65535 =>
             /\ fnOut[1].err = ErrNone
             /\ BLen(fnOut[1].bytes) = 34
             /\ Take(fnOut[1].bytes, 32) = OutPointHash
             /\ ByteAt(fnOut[1].bytes, 33) = fnIn.Index \div 256
             /\ ByteAt(fnOut[1].bytes, 34) = fnIn.Index % 256

\* The outpoint of index 0xFFFF has been written with the bytes ff ff, and
\* it is the largest that is.
OutPointIndexBoundWitness ==
    /\ fnIn \in OutPoints
    /\ Len(fnOut) = 1
    /\ fnIn.Index = 65535
    /\ fnOut[1].err = ErrNone
    /\ Drop(fnOut[1].bytes, 32) = <<Run(2, 255)>>

\* The position of the first opaque address of a list, 0 when it has none.
FirstOpaque(addrs) ==
    IF \E i \in DOMAIN addrs : addrs[i].kind = "opaque"
    THEN CHOOSE i \in DOMAIN addrs :
           /\ addrs[i].kind = "opaque"
           /\ \A j \in 1..(i - 1) : addrs[j].kind # "opaque"
    ELSE 0

Parsable(e) == e.pre \in {"250", "515"} /\ e.sep \in {" ", "-", "+"}

\* The position of the first reply line that readResponse reads and that
\* satisfies Q, the lines before it carrying the expected code and going
\* on; 0 if there is none.
FirstAfterGood(es, Q(_)) ==
    IF \E i \in DOMAIN es :
         /\ Q(es[i])
         /\ \A j \in 1..(i - 1) : Expected(es[j]) /\ es[j].sep # " "
    THEN CHOOSE i \in DOMAIN es :
           /\ Q(es[i])
           /\ \A j \in 1..(i - 1) : Expected(es[j]) /\ es[j].sep # " "
    ELSE 0

Mismatching(e) == Parsable(e) /\ e.pre # "250"

Malformed(e) == ~Parsable(e)

\* C33: readResponse stops at the first line whose code differs from the
\* expected one, be it a mid, data or end reply line: it returns that line's
\* code, the error of the unexpected code and the texts of the lines up to
\* and including that line (with the data block of a data reply line), and
\* it takes no line after that line (and its data block) from the
\* connection.
EarlyExitOnMismatch ==
    (fnOut # <<>> /\ FirstAfterGood(fnIn, Mismatching) > 0) =>
        LET k == FirstAfterGood(fnIn, Mismatching) IN
        /\ fnOut[1].err = errCodeNotMatch
        /\ fnOut[1].code = 515
        /\ fnOut[1].reply = JoinWith([i \in 1..k |-> EntryText(fnIn[i])], "\n")
        /\ fnOut[1].lines = LinesUpTo(fnIn, k)

\* The reply 250-a=1 / 515+d= / v / . / 250 OK has been read up to the "."
\* line as code 515 with the text "a=1\nd=v".
EarlyExitOnMismatchWitness ==
    /\ Len(fnIn) = 3
    /\ fnIn[1] = ReplyEntry("-", "a=1", <<>>)
    /\ fnIn[2] = ReplyLine("515", "+", "d=", <<"v">>)
    /\ fnIn[3] = ReplyEntry(" ", "OK", <<>>)
    /\ fnOut = <<[code |-> 515, reply |-> "a=1\nd=v",
                  err |-> errCodeNotMatch, lines |-> 4]>>

\* C34: readResponse returns an error, and no reply as a success, whenever
\* a reply line it reads has fewer than 4 bytes, or three first bytes that
\* are no number, or a fourth byte other than space, "-" and "+"; for a line
\* of fewer than 4 bytes the code it returns is 0 whatever code the lines
\* before carried, and it takes no line after the malformed one.
MalformedLines ==
    (fnOut # <<>> /\ FirstAfterGood(fnIn, Malformed) > 0) =>
        LET k == FirstAfterGood(fnIn, Malformed)
            l == Line(fnIn[k].pre, fnIn[k].sep, fnIn[k].text)
        IN
        /\ fnOut[1].err \in {errShortLine, errAtoi, errInvalidLine}
        /\ Len(Full(l)) < 4 => fnOut[1].err = errShortLine /\ fnOut[1].code = 0
        /\ Len(Full(l)) >= 4 /\ Atoi(l.pre) = -1 => fnOut[1].err = errAtoi
        /\ Len(Full(l)) >= 4 /\ Atoi(l.pre) # -1 =>
             fnOut[1].err = errInvalidLine /\ fnOut[1].code = Atoi(l.pre)
        /\ fnOut[1].reply =
             JoinWith([i \in 1..(k - 1) |-> EntryText(fnIn[i])] \o <<"">>, "\n")
        /\ fnOut[1].lines = LinesUpTo(fnIn, k)

\* The reply 250-a=1 / 25 / 250 OK has been read as a short line with code 0,
\* the end reply line left on the connection.
MalformedLinesWitness ==
    /\ Len(fnIn) = 3
    /\ fnIn[1] = ReplyEntry("-", "a=1", <<>>)
    /\ fnIn[2] = ReplyLine("25", "", "", <<>>)
    /\ fnIn[3] = ReplyEntry(" ", "OK", <<>>)
    /\ fnOut = <<[code |-> 0, reply |-> "a=1\n",
                  err |-> errShortLine, lines |-> 2]>>

\* C35: whenever no call is under way, a non-empty activeServiceID names an
\* onion service registered on the controller's current connection, which
\* is open: the id is not kept once the connection the service was
\* registered on has been closed, also when Reconnect fails to dial or to
\* authenticate.
OnionFollowsConnection ==
    ((\A t \in Tasks : pc[t] = "idle") /\ activeServiceID # "") =>
        conn \in onionOn /\ conn \notin connClosed

\* C36: when a Reconnect and a Stop have been called on a running
\* controller, by two tasks and in any interleaving, and both have returned,
\* Stop without error, the controller holds no open connection.
ReconnectStopRace ==
    \A t1, t2 \in Tasks :
        (/\ started = 1
         /\ op[t1] = "Reconnect" /\ pc[t1] = "idle"
         /\ op[t2] = "Stop" /\ pc[t2] = "idle" /\ ret[t2] = ErrNone
         /\ \A t \in Tasks \ {t1, t2} : op[t] = "none") =>
            conn = 0 \/ conn \in connClosed

\* C37: in every reachable state of the access manager the counter
\* numRestricted is the number of peers recorded as restricted.
CounterMatchesRecords == numRestricted = Cardinality(RestrictedPeers)

\* The channels the access manager counts for a peer.
HasOpenOrClosedChan(p) ==
    peerCounts[p] # NoCount /\ peerCounts[p].HasOpenOrClosedChan

PendingOpenCount(p) ==
    IF peerCounts[p] = NoCount THEN 0 ELSE peerCounts[p].PendingOpenCount

\* C38: in every reachable state of the access manager and for every peer
\* it has a record of, the peer is protected exactly when it has an open or
\* closed channel, temporary exactly when it has none but has a pending open
\* channel, and restricted exactly when it has neither.
TierMatchesChannels ==
    \A p \in Peers :
        peerScores[p] # "none" =>
            /\ peerScores[p] = peerStatusProtected <=> HasOpenOrClosedChan(p)
            /\ peerScores[p] = peerStatusTemporary <=>
                 (~HasOpenOrClosedChan(p) /\ PendingOpenCount(p) > 0)
            /\ peerScores[p] = peerStatusRestricted <=>
                 (~HasOpenOrClosedChan(p) /\ PendingOpenCount(p) = 0)

\* The peer is recorded as temporary and has no channel.
TemporaryWithoutChannels(p) ==
    /\ peerScores[p] = peerStatusTemporary
    /\ ~HasOpenOrClosedChan(p)
    /\ PendingOpenCount(p) = 0

\* C38, amended: for every peer the access manager has a record of, the peer
\* is protected exactly when it has an open or closed channel, temporary
\* exactly when it has none but has a pending open channel, and restricted
\* exactly when it has neither, except for a temporary peer without
\* channels, which is a peer whose count has been removed and which got
\* there by an on_pending_close that returned
\* ErrNoMoreRestrictedAccessSlots.
TierMatchesChannelsUnlessRefused ==
    /\ [](\A p \in Peers :
            (peerScores[p] # "none" /\ ~TemporaryWithoutChannels(p)) =>
                /\ peerScores[p] = peerStatusProtected <=> HasOpenOrClosedChan(p)
                /\ peerScores[p] = peerStatusTemporary <=>
                     (~HasOpenOrClosedChan(p) /\ PendingOpenCount(p) > 0)
                /\ peerScores[p] = peerStatusRestricted <=>
                     (~HasOpenOrClosedChan(p) /\ PendingOpenCount(p) = 0))
    /\ [](\A p \in Peers : TemporaryWithoutChannels(p) => peerCounts[p] = NoCount)
    /\ [][ \A p \in Peers :
             (TemporaryWithoutChannels(p)' /\ ~TemporaryWithoutChannels(p)) =>
                 /\ Notified("on_pending_close", p)
                 /\ amRet'.err = ErrNoMoreRestrictedAccessSlots
         ]_vars

\* A temporary peer with two pending channels has had one of them confirmed
\* and is protected, while another peer is restricted, without channels.
TierMatchesChannelsWitness ==
    \E p, q \in Peers :
        /\ amRet.op = "on_confirmed_open"
        /\ amRet.peer = p
        /\ peerScores[p] = peerStatusProtected
        /\ HasOpenOrClosedChan(p)
        /\ PendingOpenCount(p) = 2
        /\ peerScores[q] = peerStatusRestricted
        /\ PendingOpenCount(q) = 0

\* C39: in every behaviour of the controller the started flag and the
\* stopped flag are 0 or 1 and no step takes either of them from 1 back to
\* 0, whatever calls of Start, Stop and Reconnect succeed or fail.
FlagsMonotone ==
    [][ /\ started' \in {0, 1}
        /\ stopped' \in {0, 1}
        /\ started' >= started
        /\ stopped' >= stopped
      ]_vars

\* A call of Start has failed to dial, a call of Stop has failed after it, and
\* both flags are set.
FlagsMonotoneWitness ==
    /\ started = 1
    /\ stopped = 1
    /\ \A t \in Tasks : pc[t] = "idle"
    /\ nDials = 0
    /\ op[1] = "Stop"
    /\ ret[1] # ErrNone

====
